---- MODULE Spec2Model ----
(***************************************************************************)
(* A model of the storage-engine core of willowzys/database_exp: the      *)
(* disk-backed B+ tree (b_plus_tree.cpp, the leaf and internal pages, the  *)
(* index iterator) on top of the buffer pool manager, the LRU-K replacer   *)
(* and the extendible hash table.                                          *)
(*                                                                         *)
(* Array indexes are those of the C++ code (0-based); a page's array_ is a *)
(* TLA+ sequence of <<key, value>> pairs of length GetSize(), so array_[i] *)
(* is arr[i + 1].                                                          *)
(***************************************************************************)
EXTENDS Integers, Sequences, FiniteSets, TLC

(***************************************************************************)
(* Bounds of the model.  Two workloads drive the tree: a small one (few    *)
(* keys, two values, every capacity of LeafSizes and InternalSizes, any    *)
(* number of calls) and a deep one (more keys, so that the tree reaches    *)
(* three levels and its internal nodes split, with a bounded number of     *)
(* Remove calls).                                                          *)
(***************************************************************************)
MaxKey == 4
MaxVal == 2
MaxPageId == 7
MaxLeafSize == 3
MaxInternalSize == 3
DeepMaxKey == 9
DeepMaxPageId == 12
DeepMaxRemoves == 1
DeepLeafSize == 3
DeepInternalSize == 3
NumThreads == 2
ConcMaxKey == 3
ConcMaxPageId == 4
ConcMaxRemoves == 1
\* The buffer pool: its frames, the replacer's k, the page table's bucket size, the
\* page ids it may allocate (0..PoolMaxPageId), the accesses the replacer may record,
\* the values of a page's contents (0..MaxData) and the pins on one page; the
\* frames of the replacer when it runs on its own.
PoolSize == 2
ReplacerK == 2
PoolBucketSize == 1
PoolMaxPageId == 2
MaxTimestamp == 4
MaxData == 1
MaxPinCount == 2
ReplNumFrames == 3
\* The hash table on its own: the capacity of a bucket, its keys (1..HashMaxKey)
\* and its values (1..HashMaxVal).
HashBucketSize == 2
HashMaxKey == 6
HashMaxVal == 2

AllKeys == 1..DeepMaxKey
AllValues == 1..MaxVal
LeafSizes == 2..MaxLeafSize
InternalSizes == 3..MaxInternalSize

(***************************************************************************)
(* Program constants.                                                      *)
(***************************************************************************)
INVALID_PAGE_ID == -1
HEADER_PAGE_ID == 0
\* KeyType{}: the key of zeroed page memory, below every key of the workloads.
ZeroKey == 0

VARIABLES
  pages,               \* the tree's pages in the buffer pool: page id -> node
  root_page_id_,       \* BPlusTree::root_page_id_
  next_page_id_,       \* BufferPoolManagerInstance::next_page_id_
  leaf_max_size_,      \* BPlusTree::leaf_max_size_
  internal_max_size_,  \* BPlusTree::internal_max_size_
  header_root,         \* the root id recorded in the header page
  tree_guard_,         \* BPlusTree::tree_guard_: its writer (0: none) and its readers
  latches,             \* the page latches held: [page, thread, mode]
  txn,                 \* per thread: the call it is in, its position, and its Transaction
  workload,            \* the caller: its keys, values, page budget and Remove budget
  hist,                \* history of the concurrent calls
  abs,                 \* history: key -> value of the successful inserts not removed since (0: none)
  phase,               \* history: "insert" (only new keys inserted so far), "remove" (then only
                       \* stored keys removed), "mixed" (anything else)
  impl,                \* which BufferPoolManagerInstance and LRUKReplacer: "project1" or "part_000"
  pages_,              \* BufferPoolManagerInstance::pages_: frame -> Page
  free_list_,          \* BufferPoolManagerInstance::free_list_
  page_table_,         \* BufferPoolManagerInstance::page_table_
  replacer_,           \* BufferPoolManagerInstance::replacer_
  bpm_next_page_id_,   \* BufferPoolManagerInstance::next_page_id_ of that pool
  disk,                \* the DiskManager's file: page id -> contents
  last                 \* history: the last call on the pool and what it returned

treevars == <<pages, root_page_id_, next_page_id_, leaf_max_size_, internal_max_size_, header_root>>
concvars == <<tree_guard_, latches, txn, hist>>
poolvars == <<impl, pages_, free_list_, page_table_, replacer_, bpm_next_page_id_, disk, last>>

(***************************************************************************)
(* Sequence helpers for the shifting loops of the page classes.            *)
(***************************************************************************)
InsertAt(s, i, e) == SubSeq(s, 1, i) \o <<e>> \o SubSeq(s, i + 1, Len(s))
RemoveIdx(s, i) == SubSeq(s, 1, i) \o SubSeq(s, i + 2, Len(s))
SetKey(s, i, k) == [s EXCEPT ![i + 1] = <<k, @[2]>>]

(***************************************************************************)
(* BPlusTreePage                                                           *)
(***************************************************************************)
GetMaxSize(node) == IF node.leaf THEN leaf_max_size_ ELSE internal_max_size_
GetMinSize(node) == (GetMaxSize(node) + 1) \div 2
GetSize(node) == Len(node.arr)
IsRootPage(node) == node.parent = INVALID_PAGE_ID

KeyAt(arr, index) == IF index >= 0 /\ index < Len(arr) THEN arr[index + 1][1] ELSE ZeroKey
ValueAt(arr, index) == IF index >= 0 /\ index < Len(arr) THEN arr[index + 1][2] ELSE INVALID_PAGE_ID

(***************************************************************************)
(* BPlusTreeLeafPage                                                       *)
(***************************************************************************)
LeafInit(parent_id) ==
  [leaf |-> TRUE, arr |-> <<>>, parent |-> parent_id, next |-> INVALID_PAGE_ID, pin |-> 1]

RECURSIVE LeafKeyIndexLoop(_, _, _, _, _)
LeafKeyIndexLoop(arr, key, left, right, ans) ==
  IF left > right THEN ans
  ELSE LET mid == (left + right) \div 2
       IN IF arr[mid + 1][1] >= key
          THEN LeafKeyIndexLoop(arr, key, left, mid - 1, mid)
          ELSE LeafKeyIndexLoop(arr, key, mid + 1, right, ans)

LeafKeyIndex(arr, key) == LeafKeyIndexLoop(arr, key, 0, Len(arr) - 1, Len(arr))

LeafLookup(arr, key) ==
  LET idx == LeafKeyIndex(arr, key)
  IN IF idx < Len(arr) /\ arr[idx + 1][1] = key
     THEN [found |-> TRUE, value |-> arr[idx + 1][2]]
     ELSE [found |-> FALSE, value |-> 0]

LeafInsert(arr, key, value) ==
  LET idx == LeafKeyIndex(arr, key)
  IN IF idx < Len(arr) /\ arr[idx + 1][1] = key
     THEN [rv |-> -1, arr |-> arr]
     ELSE [rv |-> Len(arr) + 1, arr |-> InsertAt(arr, idx, <<key, value>>)]

LeafRemoveAt(arr, index) ==
  IF index < 0 \/ index >= Len(arr) THEN arr ELSE RemoveIdx(arr, index)

(***************************************************************************)
(* BPlusTreeInternalPage                                                   *)
(***************************************************************************)
InternalInit(parent_id) ==
  [leaf |-> FALSE, arr |-> <<>>, parent |-> parent_id, next |-> INVALID_PAGE_ID, pin |-> 1]

RECURSIVE InternalLookupLoop(_, _, _, _, _)
InternalLookupLoop(arr, key, left, right, upper) ==
  IF left > right THEN upper
  ELSE LET mid == (left + right) \div 2
       IN IF KeyAt(arr, mid) > key
          THEN InternalLookupLoop(arr, key, left, mid - 1, mid)
          ELSE InternalLookupLoop(arr, key, mid + 1, right, upper)

InternalLookup(arr, key) ==
  IF Len(arr) = 1 THEN ValueAt(arr, 0)
  ELSE IF key < KeyAt(arr, 1) THEN ValueAt(arr, 0)
  ELSE ValueAt(arr, InternalLookupLoop(arr, key, 1, Len(arr) - 1, Len(arr)) - 1)

RECURSIVE ValueIndexFrom(_, _, _)
ValueIndexFrom(arr, value, i) ==
  IF i >= Len(arr) THEN -1
  ELSE IF arr[i + 1][2] = value THEN i
  ELSE ValueIndexFrom(arr, value, i + 1)

ValueIndex(arr, value) == ValueIndexFrom(arr, value, 0)

RECURSIVE InternalInsertPos(_, _, _)
InternalInsertPos(arr, key, idx) ==
  IF idx < Len(arr) /\ arr[idx + 1][1] < key
  THEN InternalInsertPos(arr, key, idx + 1)
  ELSE idx

InternalInsert(arr, key, value) == InsertAt(arr, InternalInsertPos(arr, key, 1), <<key, value>>)

InternalRemoveAt(arr, index) ==
  IF index < 0 \/ index >= Len(arr) THEN arr ELSE RemoveIdx(arr, index)

BuildRoot(key1, val1, key2, val2) == <<<<ZeroKey, val1>>, <<key2, val2>>>>

(***************************************************************************)
(* The buffer pool as the tree uses it.  The pool is large enough to keep  *)
(* every tree page resident (no eviction); a page has its pin count, and   *)
(* DeletePage takes a page with pin count 0 out of the pool.  The tree     *)
(* operators below work on a record S = [pages, root, npid, hdr, del]:     *)
(* the pages, root_page_id_, the pool's next_page_id_, the root id in the  *)
(* header page and the transaction's deleted page set.                     *)
(***************************************************************************)
FetchPage(S, page_id) == [S EXCEPT !.pages[page_id].pin = @ + 1]

UnpinPage(S, page_id) ==
  IF page_id \in DOMAIN S.pages /\ S.pages[page_id].pin > 0
  THEN [S EXCEPT !.pages[page_id].pin = @ - 1]
  ELSE S

NewPage(S, node) ==
  [S EXCEPT !.pages = [p \in DOMAIN S.pages \cup {S.npid} |->
                         IF p = S.npid THEN node ELSE S.pages[p]],
            !.npid = @ + 1]

DeletePage(S, page_id) ==
  IF page_id \notin DOMAIN S.pages THEN S
  ELSE IF S.pages[page_id].pin > 0 THEN S
  ELSE [S EXCEPT !.pages = [p \in DOMAIN S.pages \ {page_id} |-> S.pages[p]]]

UpdateRootPageId(S) == [S EXCEPT !.hdr = S.root]

SetParentPageId(S, page_id, parent_id) == [S EXCEPT !.pages[page_id].parent = parent_id]

\* "fetch the moved child page, set its parent_page_id to recipient, unpin dirty"
Reparent(S, child_pid, recipient) ==
  UnpinPage(SetParentPageId(FetchPage(S, child_pid), child_pid, recipient), child_pid)

(***************************************************************************)
(* The relocation helpers of the leaf and internal pages.                  *)
(***************************************************************************)
ShiftTailItemToFront(S, donor, recipient) ==
  LET d == S.pages[donor].arr
  IN IF Len(d) = 0 THEN S
     ELSE [S EXCEPT !.pages[donor].arr = SubSeq(d, 1, Len(d) - 1),
                    !.pages[recipient].arr = <<d[Len(d)]>> \o @]

ShiftHeadItemToBack(S, donor, recipient) ==
  LET d == S.pages[donor].arr
  IN IF Len(d) = 0 THEN S
     ELSE [S EXCEPT !.pages[donor].arr = Tail(d),
                    !.pages[recipient].arr = Append(@, d[1])]

RelocateTailToFront(S, donor, recipient) ==
  LET d == S.pages[donor].arr
  IN IF Len(d) = 0 THEN S
     ELSE Reparent([S EXCEPT !.pages[donor].arr = SubSeq(d, 1, Len(d) - 1),
                             !.pages[recipient].arr = <<d[Len(d)]>> \o @],
                   d[Len(d)][2], recipient)

\* RelocateHeadToBack that leaves the moved child's parent_page_id as it was.
RelocateHeadToBack_NoReparent(S, donor, recipient) ==
  LET d == S.pages[donor].arr
  IN IF Len(d) = 0 THEN S
     ELSE [S EXCEPT !.pages[donor].arr = Tail(d),
                    !.pages[recipient].arr = Append(@, d[1])]

RelocateHeadToBack(S, donor, recipient) ==
  LET d == S.pages[donor].arr
  IN IF Len(d) = 0 THEN S
     ELSE Reparent([S EXCEPT !.pages[donor].arr = Tail(d),
                             !.pages[recipient].arr = Append(@, d[1])],
                   d[1][2], recipient)

(***************************************************************************)
(* BPlusTree: FindLeaf with a transaction.  Every page of the descent is   *)
(* fetched, latched and appended to the transaction's page set; chain is   *)
(* that page set (INVALID_PAGE_ID stands for the nullptr that marks        *)
(* tree_guard_).  In INSERT_MODE and REMOVE_MODE nothing is released       *)
(* during the descent.                                                     *)
(***************************************************************************)
RECURSIVE FindLeaf(_, _, _, _)
FindLeaf(S, page_id, key, chain) ==
  LET S1 == FetchPage(S, page_id)
      chain1 == Append(chain, page_id)
  IN IF S1.pages[page_id].leaf
     THEN [S |-> S1, chain |-> chain1]
     ELSE FindLeaf(S1, InternalLookup(S1.pages[page_id].arr, key), key, chain1)

ReleaseSinglePage(S, page_id) == UnpinPage(S, page_id)

RECURSIVE ReleaseLockChain(_, _)
ReleaseLockChain(S, chain) ==
  IF chain = <<>> THEN S
  ELSE IF Head(chain) = INVALID_PAGE_ID THEN ReleaseLockChain(S, Tail(chain))
  ELSE ReleaseLockChain(ReleaseSinglePage(S, Head(chain)), Tail(chain))

(***************************************************************************)
(* BPlusTree::Insert and its helpers.                                      *)
(***************************************************************************)
\* SplitNode: a new page of the old node's type, with the old node's parent.
SplitNode(S, old_node) ==
  NewPage(S, IF S.pages[old_node].leaf
             THEN LeafInit(S.pages[old_node].parent)
             ELSE InternalInit(S.pages[old_node].parent))

\* while (new_leaf->GetSize() < new_leaf->GetMinSize()) leaf->ShiftTailItemToFront(new_leaf)
\* (the donor holds max_size >= min_size entries when the loop starts, so it never runs dry)
RECURSIVE SplitLeafLoop(_, _, _)
SplitLeafLoop(S, leaf, new_leaf) ==
  IF GetSize(S.pages[new_leaf]) < GetMinSize(S.pages[new_leaf]) /\ GetSize(S.pages[leaf]) > 0
  THEN SplitLeafLoop(ShiftTailItemToFront(S, leaf, new_leaf), leaf, new_leaf)
  ELSE S

\* while (new_internal->GetSize() < new_internal->GetMinSize()) parent->RelocateTailToFront(new_internal)
RECURSIVE SplitInternalLoop(_, _, _)
SplitInternalLoop(S, node, new_internal) ==
  IF GetSize(S.pages[new_internal]) < GetMinSize(S.pages[new_internal]) /\ GetSize(S.pages[node]) > 0
  THEN SplitInternalLoop(RelocateTailToFront(S, node, new_internal), node, new_internal)
  ELSE S

\* The new root of InsertIntoParent and of Insert's root-leaf split.
NewRoot(S, old_node, new_key, new_node) ==
  LET new_root_pid == S.npid
      S1 == NewPage(S, [InternalInit(INVALID_PAGE_ID) EXCEPT
                          !.arr = BuildRoot(ZeroKey, old_node, new_key, new_node)])
      S2 == SetParentPageId(SetParentPageId(S1, old_node, new_root_pid), new_node, new_root_pid)
      S3 == UpdateRootPageId([S2 EXCEPT !.root = new_root_pid])
  IN UnpinPage(S3, new_root_pid)

RECURSIVE InsertIntoParent(_, _, _, _, _)
InsertIntoParent(S, old_key, old_node, new_key, new_node) ==
  LET parent_id == S.pages[old_node].parent
  IN IF parent_id = INVALID_PAGE_ID THEN NewRoot(S, old_node, new_key, new_node)
     ELSE
       LET S1 == FetchPage(S, parent_id)
           idx == ValueIndex(S1.pages[parent_id].arr, old_node)
           S2 == [S1 EXCEPT !.pages[parent_id].arr =
                     InternalInsert(SetKey(@, idx, old_key), new_key, new_node)]
           S3 == SetParentPageId(S2, new_node, parent_id)
       IN IF GetSize(S3.pages[parent_id]) > GetMaxSize(S3.pages[parent_id])
          THEN LET new_internal == S3.npid
                   S4 == SplitInternalLoop(SplitNode(S3, parent_id), parent_id, new_internal)
                   middle_key == KeyAt(S4.pages[new_internal].arr, 0)
                   S5 == InsertIntoParent(S4, KeyAt(S4.pages[parent_id].arr, 0), parent_id,
                                          middle_key, new_internal)
               IN UnpinPage(UnpinPage(S5, new_internal), parent_id)
          ELSE UnpinPage(S3, parent_id)

\* Insert on an empty tree: the first leaf is the root.
StartNewTree(S, key, value) ==
  LET new_root_pid == S.npid
      S1 == NewPage(S, [LeafInit(INVALID_PAGE_ID) EXCEPT !.arr = LeafInsert(<<>>, key, value).arr])
      S2 == UpdateRootPageId([S1 EXCEPT !.root = new_root_pid])
  IN [S |-> UnpinPage(S2, new_root_pid), ret |-> TRUE]

\* Insert from the latched leaf on: the leaf Insert, the split and the propagation,
\* up to (not including) the final ReleaseLockChain.
InsertAtLeaf(S, leaf, key, value) ==
  LET r == LeafInsert(S.pages[leaf].arr, key, value)
  IN IF r.rv = -1 THEN [S |-> S, ret |-> FALSE]
     ELSE LET S1 == [S EXCEPT !.pages[leaf].arr = r.arr]
          IN IF GetSize(S1.pages[leaf]) < GetMaxSize(S1.pages[leaf])
             THEN [S |-> S1, ret |-> TRUE]
             ELSE LET new_leaf == S1.npid
                      S2 == SplitNode(S1, leaf)
                      S3 == [S2 EXCEPT !.pages[new_leaf].next = S2.pages[leaf].next,
                                       !.pages[leaf].next = new_leaf]
                      S4 == SplitLeafLoop(S3, leaf, new_leaf)
                      old_first_key == KeyAt(S4.pages[leaf].arr, 0)
                      new_first_key == KeyAt(S4.pages[new_leaf].arr, 0)
                      S5 == IF IsRootPage(S4.pages[leaf])
                            THEN NewRoot(S4, leaf, new_first_key, new_leaf)
                            ELSE InsertIntoParent(S4, old_first_key, leaf, new_first_key, new_leaf)
                  IN [S |-> UnpinPage(S5, new_leaf), ret |-> TRUE]

TreeInsert(S, key, value) ==
  IF S.root = INVALID_PAGE_ID THEN StartNewTree(S, key, value)
  ELSE LET f == FindLeaf(S, S.root, key, <<INVALID_PAGE_ID>>)
           r == InsertAtLeaf(f.S, f.chain[Len(f.chain)], key, value)
       IN [S |-> ReleaseLockChain(r.S, f.chain), ret |-> r.ret]

(***************************************************************************)
(* BPlusTree::Remove and its helpers.                                      *)
(***************************************************************************)
\* HandleRootAfterDelete that keeps the pin of the child it promotes.
HandleRootAfterDelete_KeepsPin(S, node) ==
  IF ~IsRootPage(S.pages[node]) THEN S
  ELSE IF S.pages[node].leaf
  THEN IF GetSize(S.pages[node]) = 0
       THEN UpdateRootPageId([S EXCEPT !.root = INVALID_PAGE_ID])
       ELSE S
  ELSE IF GetSize(S.pages[node]) = 1
       THEN LET child_pid == ValueAt(S.pages[node].arr, 0)
                S1 == UpdateRootPageId([S EXCEPT !.root = child_pid])
            IN SetParentPageId(FetchPage(S1, child_pid), child_pid, INVALID_PAGE_ID)
       ELSE S

HandleRootAfterDelete(S, node) ==
  IF ~IsRootPage(S.pages[node]) THEN S
  ELSE IF S.pages[node].leaf
  THEN IF GetSize(S.pages[node]) = 0
       THEN UpdateRootPageId([S EXCEPT !.root = INVALID_PAGE_ID])
       ELSE S
  ELSE IF GetSize(S.pages[node]) = 1
       THEN LET child_pid == ValueAt(S.pages[node].arr, 0)
                S1 == UpdateRootPageId([S EXCEPT !.root = child_pid])
            IN UnpinPage(SetParentPageId(FetchPage(S1, child_pid), child_pid, INVALID_PAGE_ID),
                         child_pid)
       ELSE S

RedistributeNode(S, neighbor_node, cur_node, from_prev) ==
  IF S.pages[cur_node].leaf
  THEN IF from_prev THEN ShiftTailItemToFront(S, neighbor_node, cur_node)
                    ELSE ShiftHeadItemToBack(S, neighbor_node, cur_node)
  ELSE IF from_prev THEN RelocateTailToFront(S, neighbor_node, cur_node)
                    ELSE RelocateHeadToBack(S, neighbor_node, cur_node)

RECURSIVE CoalesceLeafLoop(_, _, _)
CoalesceLeafLoop(S, neighbor_leaf, cur_leaf) ==
  IF GetSize(S.pages[cur_leaf]) > 0
  THEN CoalesceLeafLoop(ShiftHeadItemToBack(S, cur_leaf, neighbor_leaf), neighbor_leaf, cur_leaf)
  ELSE S

CoalesceLeafNode(S, neighbor_leaf, cur_leaf) ==
  LET S1 == CoalesceLeafLoop(S, neighbor_leaf, cur_leaf)
  IN [S1 EXCEPT !.pages[neighbor_leaf].next = S1.pages[cur_leaf].next]

RECURSIVE CoalesceInternalNode(_, _, _)
CoalesceInternalNode(S, neighbor_internal, cur_internal) ==
  IF GetSize(S.pages[cur_internal]) > 0
  THEN CoalesceInternalNode(RelocateHeadToBack(S, cur_internal, neighbor_internal),
                            neighbor_internal, cur_internal)
  ELSE S

CoalesceNode(S, neighbor_node, cur_node) ==
  IF S.pages[cur_node].leaf
  THEN CoalesceLeafNode(S, neighbor_node, cur_node)
  ELSE CoalesceInternalNode(S, neighbor_node, cur_node)

\* "try to borrow from the left sibling": done says the function returned there.
BorrowFromLeft(S, node, parent_pid, index) ==
  IF index > 0
  THEN LET left_pid == ValueAt(S.pages[parent_pid].arr, index - 1)
           S1 == FetchPage(S, left_pid)
       IN IF GetSize(S1.pages[left_pid]) > GetMinSize(S1.pages[left_pid])
          THEN LET S2 == RedistributeNode(S1, left_pid, node, TRUE)
                   S3 == [S2 EXCEPT !.pages[parent_pid].arr =
                             SetKey(@, index, KeyAt(S2.pages[node].arr, 0))]
               IN [done |-> TRUE, S |-> UnpinPage(UnpinPage(S3, left_pid), parent_pid)]
          ELSE [done |-> FALSE, S |-> UnpinPage(S1, left_pid)]
  ELSE [done |-> FALSE, S |-> S]

\* "then try the right sibling"
BorrowFromRight(S, node, parent_pid, index) ==
  IF index < GetSize(S.pages[parent_pid]) - 1
  THEN LET right_pid == ValueAt(S.pages[parent_pid].arr, index + 1)
           S1 == FetchPage(S, right_pid)
       IN IF GetSize(S1.pages[right_pid]) > GetMinSize(S1.pages[right_pid])
          THEN LET S2 == RedistributeNode(S1, right_pid, node, FALSE)
                   S3 == [S2 EXCEPT !.pages[parent_pid].arr =
                             SetKey(@, index + 1, KeyAt(S2.pages[right_pid].arr, 0))]
               IN [done |-> TRUE, S |-> UnpinPage(UnpinPage(S3, right_pid), parent_pid)]
          ELSE [done |-> FALSE, S |-> UnpinPage(S1, right_pid)]
  ELSE [done |-> FALSE, S |-> S]

\* "nothing to borrow: merge", with the left sibling if there is one, else with the right.
Merge(S, node, parent_pid, index) ==
  IF index > 0
  THEN LET left_pid == ValueAt(S.pages[parent_pid].arr, index - 1)
           S1 == FetchPage(S, left_pid)
           S2 == IF GetSize(S1.pages[left_pid]) = GetMinSize(S1.pages[left_pid])
                 THEN LET M == CoalesceNode(S1, left_pid, node)
                      IN [M EXCEPT !.pages[parent_pid].arr = InternalRemoveAt(@, index),
                                   !.del = @ \cup {node}]
                 ELSE S1
       IN UnpinPage(S2, left_pid)
  ELSE IF index < GetSize(S.pages[parent_pid]) - 1
  THEN LET right_pid == ValueAt(S.pages[parent_pid].arr, index + 1)
           S1 == FetchPage(S, right_pid)
           S2 == IF GetSize(S1.pages[right_pid]) = GetMinSize(S1.pages[right_pid])
                 THEN LET M == CoalesceNode(S1, node, right_pid)
                      IN [M EXCEPT !.pages[parent_pid].arr = InternalRemoveAt(@, index + 1),
                                   !.del = @ \cup {right_pid}]
                 ELSE S1
       IN UnpinPage(S2, right_pid)
  ELSE S

RECURSIVE RedistributeOrMerge(_, _)
RedistributeOrMerge(S, node) ==
  IF IsRootPage(S.pages[node]) THEN HandleRootAfterDelete(S, node)
  ELSE LET parent_pid == S.pages[node].parent
           S1 == FetchPage(S, parent_pid)
           index == ValueIndex(S1.pages[parent_pid].arr, node)
           L == BorrowFromLeft(S1, node, parent_pid, index)
       IN IF L.done THEN L.S
          ELSE LET R == BorrowFromRight(L.S, node, parent_pid, index)
               IN IF R.done THEN R.S
                  ELSE LET S2 == Merge(R.S, node, parent_pid, index)
                           S3 == IF GetSize(S2.pages[parent_pid]) < GetMinSize(S2.pages[parent_pid])
                                 THEN RedistributeOrMerge(S2, parent_pid)
                                 ELSE S2
                       IN UnpinPage(S3, parent_pid)

\* Remove from the latched leaf on, up to (not including) ReclaimDeletedPages:
\* found says whether the key was in the leaf.
RemoveAtLeaf(S, leaf, key) ==
  LET arr == S.pages[leaf].arr
      idx == LeafKeyIndex(arr, key)
  IN IF idx >= Len(arr) \/ KeyAt(arr, idx) # key THEN [S |-> S, found |-> FALSE]
     ELSE LET S1 == [S EXCEPT !.pages[leaf].arr = LeafRemoveAt(arr, idx)]
          IN [S |-> IF GetSize(S1.pages[leaf]) < GetMinSize(S1.pages[leaf])
                    THEN RedistributeOrMerge(S1, leaf)
                    ELSE S1,
              found |-> TRUE]

\* for (pid : *deleted_pages) DeletePageHelper(pid); deleted_pages->clear()
RECURSIVE DeleteAll(_, _)
DeleteAll(S, pids) ==
  IF pids = {} THEN S
  ELSE LET pid == CHOOSE x \in pids : TRUE
       IN DeleteAll(DeletePage(S, pid), pids \ {pid})

ReclaimDeletedPages(S) == [DeleteAll(S, S.del) EXCEPT !.del = {}]

TreeRemove(S, key) ==
  IF S.root = INVALID_PAGE_ID THEN S
  ELSE LET f == FindLeaf(S, S.root, key, <<INVALID_PAGE_ID>>)
           r == RemoveAtLeaf(f.S, f.chain[Len(f.chain)], key)
       IN IF r.found THEN ReleaseLockChain(ReclaimDeletedPages(r.S), f.chain)
                     ELSE ReleaseLockChain(r.S, f.chain)

(***************************************************************************)
(* BPlusTree::GetValue: the read descent and the leaf Lookup.              *)
(***************************************************************************)
RECURSIVE FindLeafRead(_, _, _)
FindLeafRead(P, page_id, key) ==
  IF P[page_id].leaf THEN page_id
  ELSE FindLeafRead(P, InternalLookup(P[page_id].arr, key), key)

GetValue(P, root, key) ==
  IF root = INVALID_PAGE_ID THEN [found |-> FALSE, value |-> 0]
  ELSE LeafLookup(P[FindLeafRead(P, root, key)].arr, key)

(***************************************************************************)
(* The sequential specification: each call of the tree's API is one        *)
(* action; the calls carry a transaction, as FindLeaf asserts for Insert   *)
(* and Remove.                                                             *)
(***************************************************************************)
TreeState == [pages |-> pages, root |-> root_page_id_, npid |-> next_page_id_,
              hdr |-> header_root, del |-> {}]

SetTree(S) ==
  /\ pages' = S.pages
  /\ root_page_id_' = S.root
  /\ next_page_id_' = S.npid
  /\ header_root' = S.hdr

(***************************************************************************)
(* ExtendibleHashTable<page_id_t, frame_id_t>, the page table.  dir_ holds *)
(* shared pointers: a bucket is named by its position in buckets, the      *)
(* order of allocation; dir_[i + 1] is the code's dir_[i].                 *)
(***************************************************************************)
RECURSIVE Pow2(_)
Pow2(n) == IF n <= 0 THEN 1 ELSE 2 * Pow2(n - 1)

\* std::hash of an integer key: the key as a size_t (the identity on page ids).
Hash(key) == key

Bucket(size, depth) == [size_ |-> size, depth_ |-> depth, list_ |-> <<>>]

IsFull(bucket) == Len(bucket.list_) = bucket.size_

ExtendibleHashTable(bucket_size) ==
  [global_depth_ |-> 0, bucket_size_ |-> bucket_size, num_buckets_ |-> 1,
   dir_ |-> <<1>>, buckets |-> <<Bucket(bucket_size, 0)>>]

\* hash & ((1 << global_depth_) - 1)
IndexOf(H, key) == Hash(key) % Pow2(H.global_depth_)

RECURSIVE BucketFind(_, _)
BucketFind(list, key) ==
  IF list = <<>> THEN [ret |-> FALSE, value |-> -1]
  ELSE IF Head(list)[1] = key THEN [ret |-> TRUE, value |-> Head(list)[2]]
  ELSE BucketFind(Tail(list), key)

RECURSIVE BucketErase(_, _)
BucketErase(list, key) ==
  IF list = <<>> THEN <<>>
  ELSE IF Head(list)[1] = key THEN Tail(list)
  ELSE <<Head(list)>> \o BucketErase(Tail(list), key)

BucketRemove(bucket, key) ==
  [ret |-> BucketFind(bucket.list_, key).ret,
   bucket |-> [bucket EXCEPT !.list_ = BucketErase(@, key)]]

RECURSIVE BucketUpdate(_, _, _)
BucketUpdate(list, key, value) ==
  IF list = <<>> THEN <<>>
  ELSE IF Head(list)[1] = key THEN <<<<key, value>>>> \o Tail(list)
  ELSE <<Head(list)>> \o BucketUpdate(Tail(list), key, value)

\* Bucket::Insert that tests IsFull before it looks for the key.
BucketInsert_FullFirst(bucket, key, value) ==
  IF IsFull(bucket) THEN [ret |-> FALSE, bucket |-> bucket]
  ELSE IF BucketFind(bucket.list_, key).ret
  THEN [ret |-> TRUE, bucket |-> [bucket EXCEPT !.list_ = BucketUpdate(@, key, value)]]
  ELSE [ret |-> TRUE, bucket |-> [bucket EXCEPT !.list_ = Append(@, <<key, value>>)]]

BucketInsert(bucket, key, value) ==
  IF BucketFind(bucket.list_, key).ret
  THEN [ret |-> TRUE, bucket |-> [bucket EXCEPT !.list_ = BucketUpdate(@, key, value)]]
  ELSE IF IsFull(bucket) THEN [ret |-> FALSE, bucket |-> bucket]
  ELSE [ret |-> TRUE, bucket |-> [bucket EXCEPT !.list_ = Append(@, <<key, value>>)]]

HashFind(H, key) == BucketFind(H.buckets[H.dir_[IndexOf(H, key) + 1]].list_, key)

\* Remove that gives up a bucket it has emptied.
HashRemove_DropsEmpty(H, key) ==
  LET bucket == H.dir_[IndexOf(H, key) + 1]
      r == BucketRemove(H.buckets[bucket], key)
  IN [ret |-> r.ret,
      H |-> [H EXCEPT !.buckets[bucket] = r.bucket,
                      !.num_buckets_ = IF r.ret /\ r.bucket.list_ = <<>> /\ @ > 1
                                       THEN @ - 1 ELSE @]]

HashRemove(H, key) ==
  LET bucket == H.dir_[IndexOf(H, key) + 1]
      r == BucketRemove(H.buckets[bucket], key)
  IN [ret |-> r.ret, H |-> [H EXCEPT !.buckets[bucket] = r.bucket]]

\* The loop over the old bucket's items testing the bit above the old depth.
RECURSIVE SplitItems_WrongBit(_, _, _, _)
SplitItems_WrongBit(items, old_depth, kept, new_bucket) ==
  IF items = <<>> THEN [kept |-> kept, new_bucket |-> new_bucket]
  ELSE LET item == Head(items)
           belongs_to_new == (Hash(item[1]) \div Pow2(old_depth + 1)) % 2 = 1
       IN IF belongs_to_new
          THEN SplitItems_WrongBit(Tail(items), old_depth, kept,
                                   BucketInsert(new_bucket, item[1], item[2]).bucket)
          ELSE SplitItems_WrongBit(Tail(items), old_depth, Append(kept, item), new_bucket)

\* The loop over the old bucket's items: those whose hash has the bit of the old
\* depth set go to the new bucket, the others stay.
RECURSIVE SplitItems(_, _, _, _)
SplitItems(items, old_depth, kept, new_bucket) ==
  IF items = <<>> THEN [kept |-> kept, new_bucket |-> new_bucket]
  ELSE LET item == Head(items)
           belongs_to_new == (Hash(item[1]) \div Pow2(old_depth)) % 2 = 1
       IN IF belongs_to_new
          THEN SplitItems(Tail(items), old_depth, kept,
                          BucketInsert(new_bucket, item[1], item[2]).bucket)
          ELSE SplitItems(Tail(items), old_depth, Append(kept, item), new_bucket)

\* SplitBucket that raises the local depth of both halves by two.
SplitBucket_DepthTwice(H, bucket, bucket_idx) ==
  LET old_depth == H.buckets[bucket].depth_
      new_bucket == Len(H.buckets) + 1
      r == SplitItems(H.buckets[bucket].list_, old_depth, <<>>,
                      Bucket(H.bucket_size_, old_depth + 2))
  IN [H EXCEPT
        !.num_buckets_ = @ + 1,
        !.buckets = Append([@ EXCEPT ![bucket] = [@ EXCEPT !.depth_ = old_depth + 2,
                                                           !.list_ = r.kept]],
                           r.new_bucket),
        !.dir_ = [i \in 1..Len(@) |->
                    IF @[i] = bucket /\ ((i - 1) \div Pow2(old_depth)) % 2 = 1
                    THEN new_bucket ELSE @[i]]]

\* SplitBucket that does not count the new bucket.
SplitBucket_NoCount(H, bucket, bucket_idx) ==
  LET old_depth == H.buckets[bucket].depth_
      new_bucket == Len(H.buckets) + 1
      r == SplitItems(H.buckets[bucket].list_, old_depth, <<>>,
                      Bucket(H.bucket_size_, old_depth + 1))
  IN [H EXCEPT
        !.buckets = Append([@ EXCEPT ![bucket] = [@ EXCEPT !.depth_ = old_depth + 1,
                                                           !.list_ = r.kept]],
                           r.new_bucket),
        !.dir_ = [i \in 1..Len(@) |->
                    IF @[i] = bucket /\ ((i - 1) \div Pow2(old_depth)) % 2 = 1
                    THEN new_bucket ELSE @[i]]]

SplitBucket(H, bucket, bucket_idx) ==
  LET old_depth == H.buckets[bucket].depth_
      new_bucket == Len(H.buckets) + 1
      r == SplitItems(H.buckets[bucket].list_, old_depth, <<>>,
                      Bucket(H.bucket_size_, old_depth + 1))
  IN [H EXCEPT
        !.num_buckets_ = @ + 1,
        !.buckets = Append([@ EXCEPT ![bucket] = [@ EXCEPT !.depth_ = old_depth + 1,
                                                           !.list_ = r.kept]],
                           r.new_bucket),
        !.dir_ = [i \in 1..Len(@) |->
                    IF @[i] = bucket /\ ((i - 1) \div Pow2(old_depth)) % 2 = 1
                    THEN new_bucket ELSE @[i]]]

RECURSIVE HashInsert(_, _, _)
HashInsert(H, key, value) ==
  LET idx == IndexOf(H, key)
      bucket == H.dir_[idx + 1]
      r == BucketInsert(H.buckets[bucket], key, value)
  IN IF r.ret THEN [H EXCEPT !.buckets[bucket] = r.bucket]
     ELSE LET H1 == IF H.buckets[bucket].depth_ = H.global_depth_
                    THEN [H EXCEPT !.global_depth_ = @ + 1, !.dir_ = @ \o @]
                    ELSE H
          IN HashInsert(SplitBucket(H1, bucket, idx), key, value)

(***************************************************************************)
(* The ExtendibleHashTable of project2: Insert splits a full bucket with   *)
(* RedistributeBucket, which finds the bucket's split image in the         *)
(* directory instead of testing a bit of every directory index.            *)
(***************************************************************************)
\* The loop over the old bucket's items (project2): an item moves if the directory
\* entry of its key now is the new bucket.
RECURSIVE RedistributeItems(_, _, _, _, _)
RedistributeItems(H, items, kept, new_bucket, new_idx) ==
  IF items = <<>> THEN [kept |-> kept, new_bucket |-> new_bucket]
  ELSE LET item == Head(items)
       IN IF H.dir_[IndexOf(H, item[1]) + 1] = new_idx
          THEN RedistributeItems(H, Tail(items), kept,
                                 BucketInsert(new_bucket, item[1], item[2]).bucket, new_idx)
          ELSE RedistributeItems(H, Tail(items), Append(kept, item), new_bucket, new_idx)

\* original_index ^ (1 << local_depth)
SplitImageIndex(original_index, local_depth) ==
  IF (original_index \div Pow2(local_depth)) % 2 = 1
  THEN original_index - Pow2(local_depth)
  ELSE original_index + Pow2(local_depth)

\* The first directory index that points to the bucket.
OriginalIndex(H, bucket) ==
  CHOOSE i \in 0..(Len(H.dir_) - 1) :
    /\ H.dir_[i + 1] = bucket
    /\ \A j \in 0..(i - 1) : H.dir_[j + 1] # bucket

RedistributeBucket(H, bucket) ==
  LET local_depth == H.buckets[bucket].depth_
      new_bucket == Len(H.buckets) + 1
      split_image_index == SplitImageIndex(OriginalIndex(H, bucket), local_depth)
      step == Pow2(local_depth + 1)
      H1 == [H EXCEPT
               !.num_buckets_ = @ + 1,
               !.dir_ = [i \in 1..Len(@) |->
                           IF i - 1 >= split_image_index
                              /\ (i - 1 - split_image_index) % step = 0
                           THEN new_bucket ELSE @[i]]]
      r == RedistributeItems(H1, H.buckets[bucket].list_, <<>>,
                             Bucket(H.bucket_size_, local_depth + 1), new_bucket)
  IN [H1 EXCEPT
        !.buckets = Append([@ EXCEPT ![bucket] = [@ EXCEPT !.depth_ = local_depth + 1,
                                                           !.list_ = r.kept]],
                           r.new_bucket)]

RECURSIVE HashInsert2(_, _, _)
HashInsert2(H, key, value) ==
  LET index == IndexOf(H, key)
      bucket == H.dir_[index + 1]
      r == BucketInsert(H.buckets[bucket], key, value)
  IN IF r.ret THEN [H EXCEPT !.buckets[bucket] = r.bucket]
     ELSE LET H1 == IF H.buckets[bucket].depth_ = H.global_depth_
                    THEN [H EXCEPT !.dir_ = @ \o @, !.global_depth_ = @ + 1]
                    ELSE H
          IN HashInsert2(RedistributeBucket(H1, bucket), key, value)

(***************************************************************************)
(* LRUKReplacer.  frame_table_ (entries_ in project1) maps the tracked     *)
(* frames to their access history, oldest first.  Evict walks an unordered *)
(* map: the order of the walk is the caller's choice, any enumeration of   *)
(* the tracked frames.                                                     *)
(***************************************************************************)
\* numeric_limits<...>::max(): above every difference of two timestamps (the
\* largest integer of the checker stands for it).
PlusInf == 2147483647

NoFrames == [f \in {} |-> 0]

LRUKReplacer(num_frames, k) ==
  [replacer_size_ |-> num_frames, k_ |-> k, current_timestamp_ |-> 0, curr_size_ |-> 0,
   frame_table_ |-> NoFrames]

Erase(table, frame_id) == [f \in DOMAIN table \ {frame_id} |-> table[f]]

Put(table, frame_id, info) ==
  [f \in DOMAIN table \cup {frame_id} |-> IF f = frame_id THEN info ELSE table[f]]

RECURSIVE Orders(_)
Orders(S) == IF S = {} THEN {<<>>} ELSE UNION {{<<f>> \o o : o \in Orders(S \ {f})} : f \in S}

\* CalculateBackwardKDistance without the +inf of a frame with fewer than k accesses.
CalculateBackwardKDistance_NoInf(R, frame_info) ==
  R.current_timestamp_ - Head(frame_info.history)

CalculateBackwardKDistance(R, frame_info) ==
  IF Len(frame_info.history) < R.k_ THEN PlusInf
  ELSE R.current_timestamp_ - Head(frame_info.history)

\* The walk of Evict without the tie-break on the first access: the first frame
\* found at the largest distance stays the victim.
RECURSIVE EvictWalk1_NoTie(_, _, _)
EvictWalk1_NoTie(R, order, c) ==
  IF order = <<>> THEN c
  ELSE LET fid == Head(order)
           entry == R.frame_table_[fid]
           distance == IF Len(entry.history) < R.k_ THEN PlusInf
                       ELSE R.current_timestamp_ - entry.history[Len(entry.history) - R.k_ + 1]
           c1 == IF ~entry.is_evictable THEN c
                 ELSE IF distance > c.max_distance
                 THEN [victim |-> fid, max_distance |-> distance,
                       earliest_timestamp |-> Head(entry.history)]
                 ELSE c
       IN EvictWalk1_NoTie(R, Tail(order), c1)

\* project1: the walk of Evict; c is [victim, max_distance, earliest_timestamp].
RECURSIVE EvictWalk1(_, _, _)
EvictWalk1(R, order, c) ==
  IF order = <<>> THEN c
  ELSE LET fid == Head(order)
           entry == R.frame_table_[fid]
           distance == IF Len(entry.history) < R.k_ THEN PlusInf
                       ELSE R.current_timestamp_ - entry.history[Len(entry.history) - R.k_ + 1]
           c1 == IF ~entry.is_evictable THEN c
                 ELSE IF distance > c.max_distance
                 THEN [victim |-> fid, max_distance |-> distance,
                       earliest_timestamp |-> Head(entry.history)]
                 ELSE IF distance = c.max_distance /\ Head(entry.history) < c.earliest_timestamp
                 THEN [c EXCEPT !.victim = fid, !.earliest_timestamp = Head(entry.history)]
                 ELSE c
       IN EvictWalk1(R, Tail(order), c1)

\* The walk of Evict (part_000) that never replaces a candidate by a frame at a
\* larger distance.
RECURSIVE EvictWalk0_KeepsFirst(_, _, _)
EvictWalk0_KeepsFirst(R, order, c) ==
  IF order = <<>> THEN c
  ELSE LET fid == Head(order)
           frame_info == R.frame_table_[fid]
           distance == CalculateBackwardKDistance(R, frame_info)
           earliest == frame_info.earliest_timestamp
           taken == [candidate |-> fid, candidate_distance |-> distance,
                     candidate_earliest |-> earliest]
           c1 == IF ~frame_info.is_evictable THEN c
                 ELSE IF c.candidate = -1 THEN taken
                 ELSE IF distance = c.candidate_distance /\ distance = PlusInf
                         /\ earliest < c.candidate_earliest
                 THEN [c EXCEPT !.candidate = fid, !.candidate_earliest = earliest]
                 ELSE c
       IN EvictWalk0_KeepsFirst(R, Tail(order), c1)

\* part_000: the walk of Evict; c is [candidate, candidate_distance, candidate_earliest].
RECURSIVE EvictWalk0(_, _, _)
EvictWalk0(R, order, c) ==
  IF order = <<>> THEN c
  ELSE LET fid == Head(order)
           frame_info == R.frame_table_[fid]
           distance == CalculateBackwardKDistance(R, frame_info)
           earliest == frame_info.earliest_timestamp
           taken == [candidate |-> fid, candidate_distance |-> distance,
                     candidate_earliest |-> earliest]
           c1 == IF ~frame_info.is_evictable THEN c
                 ELSE IF c.candidate = -1 THEN taken
                 ELSE IF distance > c.candidate_distance THEN taken
                 ELSE IF distance = c.candidate_distance /\ distance = PlusInf
                         /\ earliest < c.candidate_earliest
                 THEN [c EXCEPT !.candidate = fid, !.candidate_earliest = earliest]
                 ELSE c
       IN EvictWalk0(R, Tail(order), c1)

\* Evict that counts the victim out but keeps its entry and history.
Evict_KeepsEntry(R, order) ==
  LET victim == IF impl = "project1"
                THEN EvictWalk1(R, order, [victim |-> -1, max_distance |-> -1,
                                           earliest_timestamp |-> PlusInf]).victim
                ELSE EvictWalk0(R, order, [candidate |-> -1, candidate_distance |-> 0,
                                           candidate_earliest |-> 0]).candidate
  IN IF R.curr_size_ = 0 \/ victim = -1 THEN [ret |-> FALSE, frame_id |-> -1, R |-> R]
     ELSE [ret |-> TRUE, frame_id |-> victim,
           R |-> [R EXCEPT !.frame_table_[victim].is_evictable = FALSE, !.curr_size_ = @ - 1]]

Evict(R, order) ==
  LET victim == IF impl = "project1"
                THEN EvictWalk1(R, order, [victim |-> -1, max_distance |-> -1,
                                           earliest_timestamp |-> PlusInf]).victim
                ELSE EvictWalk0(R, order, [candidate |-> -1, candidate_distance |-> 0,
                                           candidate_earliest |-> 0]).candidate
  IN IF R.curr_size_ = 0 \/ victim = -1 THEN [ret |-> FALSE, frame_id |-> -1, R |-> R]
     ELSE [ret |-> TRUE, frame_id |-> victim,
           R |-> [R EXCEPT !.frame_table_ = Erase(@, victim), !.curr_size_ = @ - 1]]

RecordAccess(R, frame_id) ==
  LET ts == R.current_timestamp_ + 1
      known == frame_id \in DOMAIN R.frame_table_
      old == IF known THEN R.frame_table_[frame_id]
             ELSE [history |-> <<>>, is_evictable |-> FALSE, earliest_timestamp |-> 0]
      pushed == Append(old.history, ts)
      history == IF Len(pushed) > R.k_ THEN Tail(pushed) ELSE pushed
      info == IF impl = "project1" THEN [old EXCEPT !.history = history]
              ELSE [old EXCEPT !.history = history,
                               !.earliest_timestamp = IF Len(history) = 1 THEN ts ELSE @]
  IN [R EXCEPT !.current_timestamp_ = ts, !.frame_table_ = Put(@, frame_id, info)]

\* SetEvictable that counts the call even when the flag does not change.
SetEvictable_CountsAlways(R, frame_id, set_evictable) ==
  IF frame_id \notin DOMAIN R.frame_table_ THEN R
  ELSE [R EXCEPT !.frame_table_[frame_id].is_evictable = set_evictable,
                 !.curr_size_ = IF set_evictable THEN @ + 1 ELSE @ - 1]

SetEvictable(R, frame_id, set_evictable) ==
  IF frame_id \notin DOMAIN R.frame_table_ THEN R
  ELSE IF R.frame_table_[frame_id].is_evictable = set_evictable THEN R
  ELSE [R EXCEPT !.frame_table_[frame_id].is_evictable = set_evictable,
                 !.curr_size_ = IF set_evictable THEN @ + 1 ELSE @ - 1]

\* Remove that does not test the evictable flag.
ReplacerRemove_AnyFrame(R, frame_id) ==
  IF frame_id \notin DOMAIN R.frame_table_ THEN [threw |-> FALSE, R |-> R]
  ELSE [threw |-> FALSE,
        R |-> [R EXCEPT !.frame_table_ = Erase(@, frame_id), !.curr_size_ = @ - 1]]

\* LRUKReplacer::Remove; threw: the exception (the failed assertion in project1).
ReplacerRemove(R, frame_id) ==
  IF frame_id \notin DOMAIN R.frame_table_ THEN [threw |-> FALSE, R |-> R]
  ELSE IF ~R.frame_table_[frame_id].is_evictable THEN [threw |-> TRUE, R |-> R]
  ELSE [threw |-> FALSE,
        R |-> [R EXCEPT !.frame_table_ = Erase(@, frame_id), !.curr_size_ = @ - 1]]

Size(R) == R.curr_size_

\* The test on the frame id at the head of a call; op names the call.  project1
\* asserts frame_id < replacer_size_ as signed integers in all three calls;
\* part_000 compares static_cast<size_t>(frame_id) > replacer_size_, which a
\* negative frame id passes as a huge unsigned number, and has no test in Remove.
Rejects(R, op, frame_id) ==
  IF impl = "project1" THEN ~(frame_id < R.replacer_size_)
  ELSE op # "Remove" /\ (frame_id < 0 \/ frame_id > R.replacer_size_)

\* The calls as a caller sees them; threw: the call ended in a fault.
RecordAccessCall(R, frame_id) ==
  IF Rejects(R, "RecordAccess", frame_id) THEN [threw |-> TRUE, R |-> R]
  ELSE [threw |-> FALSE, R |-> RecordAccess(R, frame_id)]

SetEvictableCall(R, frame_id, set_evictable) ==
  IF Rejects(R, "SetEvictable", frame_id) THEN [threw |-> TRUE, R |-> R]
  ELSE [threw |-> FALSE, R |-> SetEvictable(R, frame_id, set_evictable)]

RemoveCall(R, frame_id) ==
  IF Rejects(R, "Remove", frame_id) THEN [threw |-> TRUE, R |-> R]
  ELSE ReplacerRemove(R, frame_id)

(***************************************************************************)
(* BufferPoolManagerInstance.  B is the pool's state: pages_ (frame ->     *)
(* Page), free_list_, page_table_, replacer_, next_page_id_, and disk, the *)
(* DiskManager's file: page id -> contents.  The contents of a page are    *)
(* one number, 0 for zeroed memory.  Two implementations are in the        *)
(* repository; impl says which one the pool runs.                          *)
(***************************************************************************)
Page == [page_id_ |-> INVALID_PAGE_ID, pin_count_ |-> 0, is_dirty_ |-> FALSE, data_ |-> 0]

ResetMemory(page) == [page EXCEPT !.data_ = 0]

WritePage(B, page_id, data) == [B EXCEPT !.disk[page_id] = data]

ReadPage(B, page_id) == B.disk[page_id]

BufferPoolManagerInstance(pool_size, replacer_k) ==
  [pool_size_ |-> pool_size,
   pages_ |-> [f \in 0..(pool_size - 1) |-> Page],
   free_list_ |-> [i \in 1..pool_size |-> i - 1],
   page_table_ |-> ExtendibleHashTable(PoolBucketSize),
   replacer_ |-> LRUKReplacer(pool_size, replacer_k),
   next_page_id_ |-> 0,
   disk |-> [p \in 0..PoolMaxPageId |-> 0]]

\* EvictPage that zeroes the frame before the dirty page is written back.
EvictPage_ResetFirst(B, ev) ==
  LET frame_id == ev.frame_id
      old_page == B.pages_[frame_id]
      B1 == [B EXCEPT !.replacer_ = ev.R, !.pages_[frame_id] = ResetMemory(@)]
      B2 == IF old_page.is_dirty_
            THEN [WritePage(B1, old_page.page_id_, B1.pages_[frame_id].data_)
                    EXCEPT !.pages_[frame_id].is_dirty_ = FALSE]
            ELSE B1
      B3 == [B2 EXCEPT !.page_table_ = HashRemove(@, old_page.page_id_).H]
  IN IF impl = "project1"
     THEN [B3 EXCEPT !.pages_[frame_id] =
             [ResetMemory(@) EXCEPT !.page_id_ = INVALID_PAGE_ID, !.pin_count_ = 0]]
     ELSE B3

\* The replacer's victim ev.frame_id is taken over: its page is written back if
\* dirty and leaves the page table; project1 also resets the frame here.
EvictPage(B, ev) ==
  LET frame_id == ev.frame_id
      old_page == B.pages_[frame_id]
      B1 == [B EXCEPT !.replacer_ = ev.R]
      B2 == IF old_page.is_dirty_
            THEN [WritePage(B1, old_page.page_id_, old_page.data_)
                    EXCEPT !.pages_[frame_id].is_dirty_ = FALSE]
            ELSE B1
      B3 == [B2 EXCEPT !.page_table_ = HashRemove(@, old_page.page_id_).H]
  IN IF impl = "project1"
     THEN [B3 EXCEPT !.pages_[frame_id] =
             [ResetMemory(@) EXCEPT !.page_id_ = INVALID_PAGE_ID, !.pin_count_ = 0]]
     ELSE B3

FindVictim(B, ev) ==
  IF ~ev.ret THEN [ret |-> FALSE, frame_id |-> -1, B |-> B]
  ELSE [ret |-> TRUE, frame_id |-> ev.frame_id, B |-> EvictPage(B, ev)]

\* FindFrame that leaves the frame it takes on the free list.
FindFrame_NoPop(B, order) ==
  IF B.free_list_ # <<>>
  THEN [ret |-> TRUE, frame_id |-> Head(B.free_list_), B |-> B]
  ELSE FindVictim(B, Evict(B.replacer_, order))

\* The frame for NewPgImp and FetchPgImp: the head of the free list, else the
\* replacer's victim.
FindFrame(B, order) ==
  IF B.free_list_ # <<>>
  THEN [ret |-> TRUE, frame_id |-> Head(B.free_list_), B |-> [B EXCEPT !.free_list_ = Tail(@)]]
  ELSE FindVictim(B, Evict(B.replacer_, order))

\* The page is entered in the page table and the replacer, pinned.
Track(B, page_id, frame_id) ==
  [B EXCEPT !.page_table_ = HashInsert(@, page_id, frame_id),
            !.replacer_ = SetEvictable(RecordAccess(@, frame_id), frame_id, FALSE)]

\* SetUpNewPage without the entry in the page table.
SetUpNewPage_NoInsert(B, got) ==
  LET frame_id == got.frame_id
      page_id == got.B.next_page_id_
      B1 == [got.B EXCEPT
               !.next_page_id_ = @ + 1,
               !.pages_[frame_id] =
                 [(IF impl = "project1" THEN @ ELSE ResetMemory(@))
                    EXCEPT !.page_id_ = page_id, !.pin_count_ = 1, !.is_dirty_ = FALSE]]
  IN IF ~got.ret THEN [ret |-> FALSE, page_id |-> INVALID_PAGE_ID, frame_id |-> -1, B |-> B]
     ELSE [ret |-> TRUE, page_id |-> page_id, frame_id |-> frame_id,
           B |-> [B1 EXCEPT !.replacer_ =
                    SetEvictable(RecordAccess(@, frame_id), frame_id, FALSE)]]

\* SetUpNewPage that allocates the page id before it knows whether a frame was found.
SetUpNewPage_AllocFirst(B, got) ==
  LET frame_id == got.frame_id
      page_id == got.B.next_page_id_
      B1 == [got.B EXCEPT
               !.next_page_id_ = @ + 1,
               !.pages_[frame_id] =
                 [(IF impl = "project1" THEN @ ELSE ResetMemory(@))
                    EXCEPT !.page_id_ = page_id, !.pin_count_ = 1, !.is_dirty_ = FALSE]]
  IN IF ~got.ret
     THEN [ret |-> FALSE, page_id |-> INVALID_PAGE_ID, frame_id |-> -1,
           B |-> [B EXCEPT !.next_page_id_ = @ + 1]]
     ELSE [ret |-> TRUE, page_id |-> page_id, frame_id |-> frame_id,
           B |-> Track(B1, page_id, frame_id)]

\* NewPgImp once the frame is found (got): the page id is allocated, the frame is
\* set up (part_000 zeroes it here) and entered in the page table and the replacer.
SetUpNewPage(B, got) ==
  LET frame_id == got.frame_id
      page_id == got.B.next_page_id_
      B1 == [got.B EXCEPT
               !.next_page_id_ = @ + 1,
               !.pages_[frame_id] =
                 [(IF impl = "project1" THEN @ ELSE ResetMemory(@))
                    EXCEPT !.page_id_ = page_id, !.pin_count_ = 1, !.is_dirty_ = FALSE]]
  IN IF ~got.ret THEN [ret |-> FALSE, page_id |-> INVALID_PAGE_ID, frame_id |-> -1, B |-> B]
     ELSE [ret |-> TRUE, page_id |-> page_id, frame_id |-> frame_id,
           B |-> Track(B1, page_id, frame_id)]

NewPgImp(B, order) == SetUpNewPage(B, FindFrame(B, order))

\* FetchPgImp of a page that is not resident, once the frame is found (got).
ReadIn(B, page_id, got) ==
  LET frame_id == got.frame_id
      B1 == [got.B EXCEPT !.pages_[frame_id] =
               [@ EXCEPT !.data_ = ReadPage(got.B, page_id),
                         !.page_id_ = page_id, !.pin_count_ = 1, !.is_dirty_ = FALSE]]
  IN IF ~got.ret THEN [ret |-> FALSE, frame_id |-> -1, B |-> B]
     ELSE [ret |-> TRUE, frame_id |-> frame_id, B |-> Track(B1, page_id, frame_id)]

\* PinAgain that does not tell the replacer the frame is pinned.
PinAgain_StillEvictable(B, frame_id) ==
  [ret |-> TRUE, frame_id |-> frame_id,
   B |-> [B EXCEPT !.pages_[frame_id].pin_count_ = @ + 1,
                   !.replacer_ = RecordAccess(@, frame_id)]]

\* FetchPgImp of a resident page.
PinAgain(B, frame_id) ==
  [ret |-> TRUE, frame_id |-> frame_id,
   B |-> [B EXCEPT !.pages_[frame_id].pin_count_ = @ + 1,
                   !.replacer_ = SetEvictable(RecordAccess(@, frame_id), frame_id, FALSE)]]

FetchPgImp(B, page_id, order) ==
  IF HashFind(B.page_table_, page_id).ret
  THEN PinAgain(B, HashFind(B.page_table_, page_id).value)
  ELSE ReadIn(B, page_id, FindFrame(B, order))

\* UnpinPgImp that takes the dirty argument before it looks at the pin count.
UnpinPgImp_DirtyFirst(B, page_id, is_dirty) ==
  LET hit == HashFind(B.page_table_, page_id)
      frame_id == hit.value
      B0 == [B EXCEPT !.pages_[frame_id].is_dirty_ = IF is_dirty THEN TRUE ELSE @]
      B1 == [B0 EXCEPT !.pages_[frame_id].pin_count_ = @ - 1]
  IN IF ~hit.ret THEN [ret |-> FALSE, B |-> B]
     ELSE IF B.pages_[frame_id].pin_count_ <= 0 THEN [ret |-> FALSE, B |-> B0]
     ELSE [ret |-> TRUE,
           B |-> IF B1.pages_[frame_id].pin_count_ = 0
                 THEN [B1 EXCEPT !.replacer_ = SetEvictable(@, frame_id, TRUE)]
                 ELSE B1]

\* UnpinPgImp that stores the dirty argument, clearing the flag of a dirty page.
UnpinPgImp_AssignDirty(B, page_id, is_dirty) ==
  LET hit == HashFind(B.page_table_, page_id)
      frame_id == hit.value
      B1 == [B EXCEPT !.pages_[frame_id].pin_count_ = @ - 1,
                      !.pages_[frame_id].is_dirty_ = is_dirty]
  IN IF ~hit.ret THEN [ret |-> FALSE, B |-> B]
     ELSE IF B.pages_[frame_id].pin_count_ <= 0 THEN [ret |-> FALSE, B |-> B]
     ELSE [ret |-> TRUE,
           B |-> IF B1.pages_[frame_id].pin_count_ = 0
                 THEN [B1 EXCEPT !.replacer_ = SetEvictable(@, frame_id, TRUE)]
                 ELSE B1]

\* UnpinPgImp that does not tell the replacer when the pin count reaches zero.
UnpinPgImp_NoEvictable(B, page_id, is_dirty) ==
  LET hit == HashFind(B.page_table_, page_id)
      frame_id == hit.value
      B1 == [B EXCEPT !.pages_[frame_id].pin_count_ = @ - 1,
                      !.pages_[frame_id].is_dirty_ = IF is_dirty THEN TRUE ELSE @]
  IN IF ~hit.ret THEN [ret |-> FALSE, B |-> B]
     ELSE IF B.pages_[frame_id].pin_count_ <= 0 THEN [ret |-> FALSE, B |-> B]
     ELSE [ret |-> TRUE, B |-> B1]

UnpinPgImp(B, page_id, is_dirty) ==
  LET hit == HashFind(B.page_table_, page_id)
      frame_id == hit.value
      B1 == [B EXCEPT !.pages_[frame_id].pin_count_ = @ - 1,
                      !.pages_[frame_id].is_dirty_ = IF is_dirty THEN TRUE ELSE @]
  IN IF ~hit.ret THEN [ret |-> FALSE, B |-> B]
     ELSE IF B.pages_[frame_id].pin_count_ <= 0 THEN [ret |-> FALSE, B |-> B]
     ELSE [ret |-> TRUE,
           B |-> IF B1.pages_[frame_id].pin_count_ = 0
                 THEN [B1 EXCEPT !.replacer_ = SetEvictable(@, frame_id, TRUE)]
                 ELSE B1]

\* FlushPgImp that writes the page only if its dirty flag is set.
FlushPgImp_OnlyDirty(B, page_id) ==
  LET hit == HashFind(B.page_table_, page_id)
      frame_id == hit.value
  IN IF impl = "project1" /\ page_id = INVALID_PAGE_ID THEN [ret |-> FALSE, B |-> B]
     ELSE IF ~hit.ret THEN [ret |-> FALSE, B |-> B]
     ELSE [ret |-> TRUE,
           B |-> IF B.pages_[frame_id].is_dirty_
                 THEN [WritePage(B, page_id, B.pages_[frame_id].data_)
                         EXCEPT !.pages_[frame_id].is_dirty_ = FALSE]
                 ELSE B]

FlushPgImp(B, page_id) ==
  LET hit == HashFind(B.page_table_, page_id)
      frame_id == hit.value
  IN IF impl = "project1" /\ page_id = INVALID_PAGE_ID THEN [ret |-> FALSE, B |-> B]
     ELSE IF ~hit.ret THEN [ret |-> FALSE, B |-> B]
     ELSE [ret |-> TRUE,
           B |-> [WritePage(B, page_id, B.pages_[frame_id].data_)
                    EXCEPT !.pages_[frame_id].is_dirty_ = FALSE]]

RECURSIVE FlushAllLoop(_, _)
FlushAllLoop(B, i) ==
  IF i >= B.pool_size_ THEN B
  ELSE LET page == B.pages_[i]
       IN FlushAllLoop(IF page.page_id_ # INVALID_PAGE_ID /\ page.is_dirty_
                       THEN [WritePage(B, page.page_id_, page.data_)
                               EXCEPT !.pages_[i].is_dirty_ = FALSE]
                       ELSE B,
                       i + 1)

FlushAllPgsImp(B) == FlushAllLoop(B, 0)

\* DeletePgImp that drops a dirty page without writing it.
DeletePgImp_NoWrite(B, page_id) ==
  LET hit == HashFind(B.page_table_, page_id)
      frame_id == hit.value
      page == B.pages_[frame_id]
      B2 == [B EXCEPT !.page_table_ = HashRemove(@, page_id).H]
      rm == ReplacerRemove(B2.replacer_, frame_id)
      B3 == [B2 EXCEPT !.replacer_ = rm.R,
                       !.free_list_ = Append(@, frame_id),
                       !.pages_[frame_id] =
                         [ResetMemory(@) EXCEPT !.page_id_ = INVALID_PAGE_ID,
                                                !.pin_count_ = 0, !.is_dirty_ = FALSE]]
  IN IF ~hit.ret THEN [ret |-> TRUE, threw |-> FALSE, B |-> B]
     ELSE IF page.pin_count_ > 0 THEN [ret |-> FALSE, threw |-> FALSE, B |-> B]
     ELSE IF rm.threw THEN [ret |-> FALSE, threw |-> TRUE, B |-> B2]
     ELSE [ret |-> TRUE, threw |-> FALSE, B |-> B3]

\* threw: LRUKReplacer::Remove ended the call (an exception, or the failed assertion).
DeletePgImp(B, page_id) ==
  LET hit == HashFind(B.page_table_, page_id)
      frame_id == hit.value
      page == B.pages_[frame_id]
      B1 == IF page.is_dirty_ THEN WritePage(B, page_id, page.data_) ELSE B
      B2 == [B1 EXCEPT !.page_table_ = HashRemove(@, page_id).H]
      rm == ReplacerRemove(B2.replacer_, frame_id)
      B3 == [B2 EXCEPT !.replacer_ = rm.R,
                       !.free_list_ = Append(@, frame_id),
                       !.pages_[frame_id] =
                         [ResetMemory(@) EXCEPT !.page_id_ = INVALID_PAGE_ID,
                                                !.pin_count_ = 0, !.is_dirty_ = FALSE]]
  IN IF ~hit.ret THEN [ret |-> TRUE, threw |-> FALSE, B |-> B]
     ELSE IF page.pin_count_ > 0 THEN [ret |-> FALSE, threw |-> FALSE, B |-> B]
     ELSE IF rm.threw THEN [ret |-> FALSE, threw |-> TRUE, B |-> B2]
     ELSE [ret |-> TRUE, threw |-> FALSE, B |-> B3]

\* A caller that holds a pin writes the page through GetData().
WriteData(B, page_id, data) ==
  LET hit == HashFind(B.page_table_, page_id)
  IN [B EXCEPT !.pages_[hit.value].data_ = data]

PoolState == [pool_size_ |-> PoolSize, pages_ |-> pages_, free_list_ |-> free_list_, page_table_ |-> page_table_,
              replacer_ |-> replacer_, next_page_id_ |-> bpm_next_page_id_, disk |-> disk]

SetPool(B) ==
  /\ pages_' = B.pages_
  /\ free_list_' = B.free_list_
  /\ page_table_' = B.page_table_
  /\ replacer_' = B.replacer_
  /\ bpm_next_page_id_' = B.next_page_id_
  /\ disk' = B.disk

\* The value of last when the last call on the pool was not NewPage.
NoPage == [op |-> "other", ret |-> FALSE, page_id |-> INVALID_PAGE_ID, frame_id |-> -1]

\* The pool as its constructor leaves it, running implementation i.
PoolCtor(i) ==
  LET B == BufferPoolManagerInstance(PoolSize, ReplacerK)
  IN /\ impl = i
     /\ pages_ = B.pages_
     /\ free_list_ = B.free_list_
     /\ page_table_ = B.page_table_
     /\ replacer_ = B.replacer_
     /\ bpm_next_page_id_ = B.next_page_id_
     /\ disk = B.disk
     /\ last = NoPage

NoPages == [p \in {} |-> 0]

Keys == 1..workload.max_key
Values == 1..workload.max_val

Threads == 1..NumThreads

READ_MODE == 0
INSERT_MODE == 1
REMOVE_MODE == 2

IdleTxn == [pc |-> "idle", mode |-> READ_MODE, key |-> 0, value |-> 0, page_id |-> INVALID_PAGE_ID,
            page_set |-> <<>>, deleted_page_set |-> {}, ret |-> FALSE]

EmptyTree ==
  /\ tree_guard_ = [writer |-> 0, readers |-> {}]
  /\ latches = {}
  /\ txn = [t \in Threads |-> IdleTxn]
  /\ hist = [inserts_only |-> TRUE, all_true |-> TRUE]
  /\ pages = NoPages
  /\ root_page_id_ = INVALID_PAGE_ID
  /\ next_page_id_ = 1
  /\ header_root = INVALID_PAGE_ID
  /\ abs = [k \in AllKeys |-> 0]
  /\ phase = "insert"

Init ==
  /\ EmptyTree
  /\ PoolCtor("project1")
  /\ leaf_max_size_ \in LeafSizes
  /\ internal_max_size_ \in InternalSizes
  /\ workload = [max_key |-> MaxKey, max_val |-> MaxVal, max_page |-> MaxPageId,
                 limited |-> FALSE, removes_left |-> 0]

InitDeep ==
  /\ EmptyTree
  /\ PoolCtor("project1")
  /\ leaf_max_size_ = DeepLeafSize
  /\ internal_max_size_ = DeepInternalSize
  /\ workload = [max_key |-> DeepMaxKey, max_val |-> 1, max_page |-> DeepMaxPageId,
                 limited |-> TRUE, removes_left |-> DeepMaxRemoves]

Insert(key, value) ==
  /\ key \in Keys /\ value \in Values
  /\ next_page_id_ <= workload.max_page
  /\ LET r == TreeInsert(TreeState, key, value)
     IN /\ SetTree(r.S)
        /\ abs' = IF r.ret THEN [abs EXCEPT ![key] = value] ELSE abs
        /\ phase' = IF ~r.ret \/ (phase = "insert" /\ abs[key] = 0) THEN phase ELSE "mixed"
  /\ UNCHANGED <<leaf_max_size_, internal_max_size_, workload, concvars, poolvars>>

Remove(key) ==
  /\ key \in Keys
  /\ workload.limited => workload.removes_left > 0
  /\ SetTree(TreeRemove(TreeState, key))
  /\ abs' = [abs EXCEPT ![key] = 0]
  /\ phase' = IF abs[key] = 0 THEN phase
              ELSE IF phase \in {"insert", "remove"} THEN "remove" ELSE "mixed"
  /\ workload' = IF workload.limited THEN [workload EXCEPT !.removes_left = @ - 1] ELSE workload
  /\ UNCHANGED <<leaf_max_size_, internal_max_size_, concvars, poolvars>>

Next ==
  \/ \E key \in AllKeys, value \in AllValues : Insert(key, value)
  \/ \E key \in AllKeys : Remove(key)

vars == <<pages, root_page_id_, next_page_id_, leaf_max_size_, internal_max_size_,
          header_root, tree_guard_, latches, txn, workload, hist, abs, phase,
          impl, pages_, free_list_, page_table_, replacer_, bpm_next_page_id_, disk, last>>

Spec == Init /\ [][Next]_vars

SpecDeep == InitDeep /\ [][Next]_vars

(***************************************************************************)
(* The concurrent specification: threads call Insert, Remove and GetValue, *)
(* each with its own Transaction.  A call is cut where it takes a lock:    *)
(* at tree_guard_, at each page latch of FindLeaf's descent, and (for      *)
(* Remove) between the modification, ReclaimDeletedPages and               *)
(* ReleaseLockChain.  txn[t].page_set is the Transaction's page set, with  *)
(* INVALID_PAGE_ID for the nullptr that marks tree_guard_.                 *)
(***************************************************************************)
IsWrite(t) == txn[t].mode # READ_MODE

\* RLock / WLock of tree_guard_ can be taken.
CanRLock == tree_guard_.writer = 0
CanWLock == tree_guard_.writer = 0 /\ tree_guard_.readers = {}

\* RLatch / WLatch of a page can be taken by thread t.
CanRLatch(t, page_id) == \A l \in latches : l.page = page_id /\ l.thread # t => l.mode # "W"
CanWLatch(t, page_id) == \A l \in latches : l.page = page_id => l.thread = t

\* The latches and the tree_guard_ hold that ReleaseLockChain gives back.
Unlatched(t, chain) == {l \in latches : ~(l.thread = t /\ \E i \in 1..Len(chain) : chain[i] = l.page)}

Unguarded(t, chain) ==
  IF \E i \in 1..Len(chain) : chain[i] = INVALID_PAGE_ID
  THEN [writer |-> IF tree_guard_.writer = t THEN 0 ELSE tree_guard_.writer,
        readers |-> tree_guard_.readers \ {t}]
  ELSE tree_guard_

\* The owner of a key when the threads insert pairwise disjoint key sets.
Owner(key) == ((key - 1) % NumThreads) + 1

\* Insert: tree_guard_.WLock(), AddIntoPageSet(nullptr); on an empty tree the whole
\* call (the new root leaf, ReleaseLockChain); else on to FindLeaf.
BeginInsert(t, key, value) ==
  /\ txn[t].pc = "idle" /\ key \in Keys /\ value \in Values
  /\ next_page_id_ <= workload.max_page
  /\ CanWLock
  /\ hist' = [hist EXCEPT !.inserts_only = @ /\ Owner(key) = t /\ abs[key] = 0]
  /\ IF root_page_id_ = INVALID_PAGE_ID
     THEN /\ SetTree(StartNewTree(TreeState, key, value).S)
          /\ abs' = [abs EXCEPT ![key] = value]
          /\ txn' = [txn EXCEPT ![t] = [IdleTxn EXCEPT !.ret = TRUE]]
          /\ UNCHANGED tree_guard_
     ELSE /\ tree_guard_' = [tree_guard_ EXCEPT !.writer = t]
          /\ txn' = [txn EXCEPT ![t] = [IdleTxn EXCEPT !.pc = "descend", !.mode = INSERT_MODE,
                                          !.key = key, !.value = value,
                                          !.page_id = root_page_id_,
                                          !.page_set = <<INVALID_PAGE_ID>>]]
          /\ UNCHANGED <<pages, root_page_id_, next_page_id_, header_root, abs>>
  /\ UNCHANGED <<leaf_max_size_, internal_max_size_, latches, workload, phase, poolvars>>

\* Remove: tree_guard_.WLock(), AddIntoPageSet(nullptr); on an empty tree release and
\* return; else on to FindLeaf.
BeginRemove(t, key) ==
  /\ txn[t].pc = "idle" /\ key \in Keys
  /\ workload.limited => workload.removes_left > 0
  /\ CanWLock
  /\ hist' = [hist EXCEPT !.inserts_only = FALSE]
  /\ workload' = IF workload.limited THEN [workload EXCEPT !.removes_left = @ - 1] ELSE workload
  /\ IF root_page_id_ = INVALID_PAGE_ID
     THEN /\ abs' = [abs EXCEPT ![key] = 0]
          /\ UNCHANGED <<tree_guard_, txn>>
     ELSE /\ tree_guard_' = [tree_guard_ EXCEPT !.writer = t]
          /\ txn' = [txn EXCEPT ![t] = [IdleTxn EXCEPT !.pc = "descend", !.mode = REMOVE_MODE,
                                          !.key = key,
                                          !.page_id = root_page_id_,
                                          !.page_set = <<INVALID_PAGE_ID>>]]
          /\ UNCHANGED abs
  /\ UNCHANGED <<treevars, latches, phase, poolvars>>

\* GetValue: tree_guard_.RLock(), AddIntoPageSet(nullptr); on an empty tree release and
\* return false; else on to FindLeaf.
BeginGetValue(t, key) ==
  /\ txn[t].pc = "idle" /\ key \in Keys
  /\ CanRLock
  /\ hist' = [hist EXCEPT !.inserts_only = FALSE]
  /\ IF root_page_id_ = INVALID_PAGE_ID
     THEN /\ txn' = [txn EXCEPT ![t] = IdleTxn]
          /\ UNCHANGED tree_guard_
     ELSE /\ tree_guard_' = [tree_guard_ EXCEPT !.readers = @ \cup {t}]
          /\ txn' = [txn EXCEPT ![t] = [IdleTxn EXCEPT !.pc = "descend", !.mode = READ_MODE,
                                          !.key = key,
                                          !.page_id = root_page_id_,
                                          !.page_set = <<INVALID_PAGE_ID>>]]
  /\ UNCHANGED <<treevars, latches, workload, abs, phase, poolvars>>

\* One turn of FindLeaf's loop in INSERT_MODE or REMOVE_MODE: FetchPage, WLatch,
\* AddIntoPageSet; nothing is released.
DescendWrite(t) ==
  /\ txn[t].pc = "descend" /\ IsWrite(t)
  /\ LET page_id == txn[t].page_id
     IN /\ CanWLatch(t, page_id)
        /\ SetTree(FetchPage(TreeState, page_id))
        /\ latches' = latches \cup {[page |-> page_id, thread |-> t, mode |-> "W"]}
        /\ txn' = [txn EXCEPT ![t].page_set = Append(@, page_id),
                              ![t].pc = IF pages[page_id].leaf THEN "leaf" ELSE "descend",
                              ![t].page_id = IF pages[page_id].leaf THEN page_id
                                             ELSE InternalLookup(pages[page_id].arr, txn[t].key)]
  /\ UNCHANGED <<leaf_max_size_, internal_max_size_, tree_guard_, workload, hist, abs, phase, poolvars>>

\* DescendRead that gives the parent back and goes on to the child without the
\* child's latch.
DescendRead_NoLatch(t) ==
  /\ txn[t].pc = "descend" /\ ~IsWrite(t)
  /\ LET page_id == txn[t].page_id
     IN /\ SetTree(ReleaseLockChain(FetchPage(TreeState, page_id), txn[t].page_set))
        /\ latches' = Unlatched(t, txn[t].page_set)
        /\ tree_guard_' = Unguarded(t, txn[t].page_set)
        /\ txn' = [txn EXCEPT ![t].page_set = <<page_id>>,
                              ![t].pc = IF pages[page_id].leaf THEN "leaf" ELSE "descend",
                              ![t].page_id = IF pages[page_id].leaf THEN page_id
                                             ELSE InternalLookup(pages[page_id].arr, txn[t].key)]
  /\ UNCHANGED <<leaf_max_size_, internal_max_size_, workload, hist, abs, phase, poolvars>>

\* DescendRead that keeps the read latch of the parent.
DescendRead_KeepsLatch(t) ==
  /\ txn[t].pc = "descend" /\ ~IsWrite(t)
  /\ LET page_id == txn[t].page_id
     IN /\ CanRLatch(t, page_id)
        /\ SetTree(ReleaseLockChain(FetchPage(TreeState, page_id), txn[t].page_set))
        /\ latches' = latches \cup {[page |-> page_id, thread |-> t, mode |-> "R"]}
        /\ tree_guard_' = Unguarded(t, txn[t].page_set)
        /\ txn' = [txn EXCEPT ![t].page_set = <<page_id>>,
                              ![t].pc = IF pages[page_id].leaf THEN "leaf" ELSE "descend",
                              ![t].page_id = IF pages[page_id].leaf THEN page_id
                                             ELSE InternalLookup(pages[page_id].arr, txn[t].key)]
  /\ UNCHANGED <<leaf_max_size_, internal_max_size_, workload, hist, abs, phase, poolvars>>

\* One turn of FindLeaf's loop in READ_MODE with a transaction: FetchPage, RLatch,
\* ReleaseLockChain (the parent, or tree_guard_ at the root), AddIntoPageSet.
DescendRead(t) ==
  /\ txn[t].pc = "descend" /\ ~IsWrite(t)
  /\ LET page_id == txn[t].page_id
     IN /\ CanRLatch(t, page_id)
        /\ SetTree(ReleaseLockChain(FetchPage(TreeState, page_id), txn[t].page_set))
        /\ latches' = Unlatched(t, txn[t].page_set)
                        \cup {[page |-> page_id, thread |-> t, mode |-> "R"]}
        /\ tree_guard_' = Unguarded(t, txn[t].page_set)
        /\ txn' = [txn EXCEPT ![t].page_set = <<page_id>>,
                              ![t].pc = IF pages[page_id].leaf THEN "leaf" ELSE "descend",
                              ![t].page_id = IF pages[page_id].leaf THEN page_id
                                             ELSE InternalLookup(pages[page_id].arr, txn[t].key)]
  /\ UNCHANGED <<leaf_max_size_, internal_max_size_, workload, hist, abs, phase, poolvars>>

\* Insert at the latched leaf: the leaf Insert, the split and InsertIntoParent.
ModifyInsert(t) ==
  /\ txn[t].pc = "leaf" /\ txn[t].mode = INSERT_MODE
  /\ LET r == InsertAtLeaf(TreeState, txn[t].page_id, txn[t].key, txn[t].value)
     IN /\ SetTree(r.S)
        /\ abs' = IF r.ret THEN [abs EXCEPT ![txn[t].key] = txn[t].value] ELSE abs
        /\ hist' = [hist EXCEPT !.all_true = @ /\ r.ret]
        /\ txn' = [txn EXCEPT ![t].pc = "release", ![t].ret = r.ret]
  /\ UNCHANGED <<leaf_max_size_, internal_max_size_, tree_guard_, latches, workload, phase, poolvars>>

\* The pages RedistributeOrMerge may WLatch: the siblings of the nodes of the path.
Siblings(t) ==
  UNION {{pages[p].arr[i][2] : i \in 1..Len(pages[p].arr)} :
           p \in {q \in DOMAIN pages : ~pages[q].leaf /\ \E i \in 1..Len(txn[t].page_set) :
                                                            txn[t].page_set[i] = q}}

\* Remove at the latched leaf: RemoveAt and RedistributeOrMerge (which waits for the
\* latches of the siblings).
ModifyRemove(t) ==
  /\ txn[t].pc = "leaf" /\ txn[t].mode = REMOVE_MODE
  /\ \A p \in Siblings(t) : CanWLatch(t, p)
  /\ LET r == RemoveAtLeaf(TreeState, txn[t].page_id, txn[t].key)
     IN /\ SetTree([r.S EXCEPT !.del = {}])
        /\ txn' = [txn EXCEPT ![t].pc = IF r.found THEN "reclaim" ELSE "release",
                              ![t].deleted_page_set = r.S.del,
                              ![t].ret = r.found]
  /\ abs' = [abs EXCEPT ![txn[t].key] = 0]
  /\ UNCHANGED <<leaf_max_size_, internal_max_size_, tree_guard_, latches, workload, hist, phase, poolvars>>

\* Remove: ReclaimDeletedPages(transaction).
Reclaim(t) ==
  /\ txn[t].pc = "reclaim"
  /\ SetTree([ReclaimDeletedPages([TreeState EXCEPT !.del = txn[t].deleted_page_set])
               EXCEPT !.del = {}])
  /\ txn' = [txn EXCEPT ![t].pc = "release", ![t].deleted_page_set = {}]
  /\ UNCHANGED <<leaf_max_size_, internal_max_size_, tree_guard_, latches, workload, hist, abs, phase, poolvars>>

\* Insert and Remove: the final ReleaseLockChain(transaction, mode).
Release(t) ==
  /\ txn[t].pc = "release"
  /\ SetTree(ReleaseLockChain(TreeState, txn[t].page_set))
  /\ latches' = Unlatched(t, txn[t].page_set)
  /\ tree_guard_' = Unguarded(t, txn[t].page_set)
  /\ txn' = [txn EXCEPT ![t] = [IdleTxn EXCEPT !.ret = txn[t].ret]]
  /\ UNCHANGED <<leaf_max_size_, internal_max_size_, workload, hist, abs, phase, poolvars>>

\* GetValue at the latched leaf: Lookup, then ReleaseLockChain(transaction, READ_MODE).
ReadLeaf(t) ==
  /\ txn[t].pc = "leaf" /\ txn[t].mode = READ_MODE
  /\ SetTree(ReleaseLockChain(TreeState, txn[t].page_set))
  /\ latches' = Unlatched(t, txn[t].page_set)
  /\ tree_guard_' = Unguarded(t, txn[t].page_set)
  /\ txn' = [txn EXCEPT ![t] = [IdleTxn EXCEPT
                !.ret = LeafLookup(pages[txn[t].page_id].arr, txn[t].key).found,
                !.key = txn[t].key,
                !.value = LeafLookup(pages[txn[t].page_id].arr, txn[t].key).value]]
  /\ UNCHANGED <<leaf_max_size_, internal_max_size_, workload, hist, abs, phase, poolvars>>

InitConc ==
  /\ EmptyTree
  /\ PoolCtor("project1")
  /\ leaf_max_size_ = MaxLeafSize
  /\ internal_max_size_ = MaxInternalSize
  /\ workload = [max_key |-> ConcMaxKey, max_val |-> 1, max_page |-> ConcMaxPageId,
                 limited |-> TRUE, removes_left |-> ConcMaxRemoves]

NextConc ==
  \E t \in Threads :
    \/ \E key \in AllKeys, value \in AllValues : BeginInsert(t, key, value)
    \/ \E key \in AllKeys : BeginRemove(t, key)
    \/ \E key \in AllKeys : BeginGetValue(t, key)
    \/ DescendWrite(t)
    \/ DescendRead(t)
    \/ ModifyInsert(t)
    \/ ModifyRemove(t)
    \/ Reclaim(t)
    \/ Release(t)
    \/ ReadLeaf(t)

SpecConc == InitConc /\ [][NextConc]_vars

(***************************************************************************)
(* The concurrent specification with every kind of caller: besides the     *)
(* calls with a Transaction, GetValue without one (tree_guard_ is held to  *)
(* the end of the call and FindLeaf gives back the previous page itself)   *)
(* and index iterators.  For these two txn[t].page_set holds the page the  *)
(* caller has latched and pinned (prev_page_ptr, IndexIterator::page_),    *)
(* and for an iterator txn[t].value is index_.  An iterator at pc "iter"   *)
(* is between two calls of operator++ and holds the read latch of its      *)
(* leaf.  The scheduler is fair: a thread whose next step stays possible   *)
(* takes it (weak fairness of Step(t), whose enabling condition is written *)
(* out as CanStep(t)).                                                     *)
(***************************************************************************)
\* GetValue(key, result, nullptr): tree_guard_.RLock(); on an empty tree RUnlock and
\* return false; else on to FindLeaf.
BeginGetValueNoTxn(t, key) ==
  /\ txn[t].pc = "idle" /\ key \in Keys
  /\ CanRLock
  /\ IF root_page_id_ = INVALID_PAGE_ID
     THEN /\ txn' = [txn EXCEPT ![t] = IdleTxn]
          /\ UNCHANGED tree_guard_
     ELSE /\ tree_guard_' = [tree_guard_ EXCEPT !.readers = @ \cup {t}]
          /\ txn' = [txn EXCEPT ![t] = [IdleTxn EXCEPT !.pc = "descend_nt", !.mode = READ_MODE,
                                          !.key = key,
                                          !.page_id = root_page_id_]]
  /\ UNCHANGED <<treevars, latches, workload, hist, abs, phase, poolvars>>

\* One turn of FindLeaf's loop in READ_MODE without a transaction: FetchPage, RLatch,
\* then RUnlatch and UnpinPage of prev_page_ptr.
DescendReadNoTxn(t) ==
  /\ txn[t].pc = "descend_nt"
  /\ LET page_id == txn[t].page_id
     IN /\ CanRLatch(t, page_id)
        /\ SetTree(ReleaseLockChain(FetchPage(TreeState, page_id), txn[t].page_set))
        /\ latches' = Unlatched(t, txn[t].page_set)
                        \cup {[page |-> page_id, thread |-> t, mode |-> "R"]}
        /\ txn' = [txn EXCEPT ![t].page_set = <<page_id>>,
                              ![t].pc = IF pages[page_id].leaf THEN "leaf_nt" ELSE "descend_nt",
                              ![t].page_id = IF pages[page_id].leaf THEN page_id
                                             ELSE InternalLookup(pages[page_id].arr, txn[t].key)]
  /\ UNCHANGED <<leaf_max_size_, internal_max_size_, tree_guard_, workload, hist, abs, phase, poolvars>>

\* GetValue without a transaction at the latched leaf: Lookup, RUnlatch, UnpinPage,
\* tree_guard_.RUnlock().
ReadLeafNoTxn(t) ==
  /\ txn[t].pc = "leaf_nt"
  /\ SetTree(UnpinPage(TreeState, txn[t].page_id))
  /\ latches' = {l \in latches : ~(l.thread = t /\ l.page = txn[t].page_id)}
  /\ tree_guard_' = [tree_guard_ EXCEPT !.readers = @ \ {t}]
  /\ txn' = [txn EXCEPT ![t] = [IdleTxn EXCEPT
                !.ret = LeafLookup(pages[txn[t].page_id].arr, txn[t].key).found,
                !.key = txn[t].key,
                !.value = LeafLookup(pages[txn[t].page_id].arr, txn[t].key).value]]
  /\ UNCHANGED <<leaf_max_size_, internal_max_size_, workload, hist, abs, phase, poolvars>>

\* Begin() / Begin(key) on a tree that is not empty: the descent reads root_page_id_
\* and the pages with no lock and no latch, so next to writers it may end at any
\* leaf of the pool; the iterator's constructor is still to fetch and latch it.
IteratorBegin(t) ==
  /\ txn[t].pc = "idle"
  /\ root_page_id_ # INVALID_PAGE_ID
  /\ \E page_id \in {p \in DOMAIN pages : pages[p].leaf} :
       txn' = [txn EXCEPT ![t] = [IdleTxn EXCEPT !.pc = "iter_latch", !.page_id = page_id]]
  /\ UNCHANGED <<treevars, tree_guard_, latches, workload, hist, abs, phase, poolvars>>

\* The iterator's constructor and the end of operator++: FetchPage(pid), RLatch.  A
\* page a Remove has deleted meanwhile is read back from disk, latched by no one:
\* the walk over it is not followed.
IteratorLatch(t) ==
  /\ txn[t].pc = "iter_latch"
  /\ LET page_id == txn[t].page_id
     IN IF page_id \notin DOMAIN pages
        THEN /\ txn' = [txn EXCEPT ![t] = IdleTxn]
             /\ UNCHANGED <<treevars, latches>>
        ELSE /\ CanRLatch(t, page_id)
             /\ SetTree(FetchPage(TreeState, page_id))
             /\ latches' = latches \cup {[page |-> page_id, thread |-> t, mode |-> "R"]}
             /\ txn' = [txn EXCEPT ![t].pc = "iter", ![t].page_set = <<page_id>>, ![t].value = 0]
             /\ UNCHANGED <<leaf_max_size_, internal_max_size_>>
  /\ UNCHANGED <<tree_guard_, workload, hist, abs, phase, poolvars>>

\* IndexIterator::operator++: index_++; past the leaf's last entry RUnlatch and
\* UnpinPage, then on to the next leaf, or end() when there is none.
IteratorNext(t) ==
  /\ txn[t].pc = "iter"
  /\ LET page_id == txn[t].page_id
         leaf == pages[page_id]
     IN IF txn[t].value + 1 < GetSize(leaf)
        THEN /\ txn' = [txn EXCEPT ![t].value = @ + 1]
             /\ UNCHANGED <<treevars, latches>>
        ELSE /\ SetTree(UnpinPage(TreeState, page_id))
             /\ latches' = {l \in latches : ~(l.thread = t /\ l.page = page_id)}
             /\ txn' = [txn EXCEPT ![t] =
                          IF leaf.next = INVALID_PAGE_ID THEN IdleTxn
                          ELSE [IdleTxn EXCEPT !.pc = "iter_latch", !.page_id = leaf.next]]
             /\ UNCHANGED <<leaf_max_size_, internal_max_size_>>
  /\ UNCHANGED <<tree_guard_, workload, hist, abs, phase, poolvars>>

\* The steps of a thread inside a call, or of its iterator.
Step(t) ==
  \/ DescendWrite(t)
  \/ DescendRead(t)
  \/ ModifyInsert(t)
  \/ ModifyRemove(t)
  \/ Reclaim(t)
  \/ Release(t)
  \/ ReadLeaf(t)
  \/ DescendReadNoTxn(t)
  \/ ReadLeafNoTxn(t)
  \/ IteratorLatch(t)
  \/ IteratorNext(t)

\* A caller starts a call or opens an iterator.
NewCall(t) ==
  \/ \E key \in AllKeys, value \in AllValues : BeginInsert(t, key, value)
  \/ \E key \in AllKeys : BeginRemove(t, key)
  \/ \E key \in AllKeys : BeginGetValue(t, key)
  \/ \E key \in AllKeys : BeginGetValueNoTxn(t, key)
  \/ IteratorBegin(t)

NextLive ==
  \E t \in Threads :
    \/ NewCall(t)
    \/ Step(t)

\* Step(t) can be taken: the lock or latch the thread's next step asks for is free
\* (ENABLED <<Step(t)>>_vars, written out).
CanStep(t) ==
  LET page_id == txn[t].page_id
  IN \/ txn[t].pc = "descend" /\ IsWrite(t) /\ CanWLatch(t, page_id)
     \/ txn[t].pc = "descend" /\ ~IsWrite(t) /\ CanRLatch(t, page_id)
     \/ txn[t].pc = "leaf" /\ txn[t].mode = INSERT_MODE
     \/ txn[t].pc = "leaf" /\ txn[t].mode = REMOVE_MODE /\ \A p \in Siblings(t) : CanWLatch(t, p)
     \/ txn[t].pc \in {"reclaim", "release"}
     \/ txn[t].pc = "leaf" /\ txn[t].mode = READ_MODE
     \/ txn[t].pc = "descend_nt" /\ CanRLatch(t, page_id)
     \/ txn[t].pc = "leaf_nt"
     \/ txn[t].pc = "iter_latch" /\ (page_id \in DOMAIN pages => CanRLatch(t, page_id))
     \/ txn[t].pc = "iter"

\* Weak fairness of Step(t): WF_vars(Step(t)) with its ENABLED written out.
Fair(t) == []<>~CanStep(t) \/ []<><<Step(t)>>_vars

SpecLive == InitConc /\ [][NextLive]_vars /\ \A t \in Threads : Fair(t)

(***************************************************************************)
(* The buffer pool on its own: one caller issues the pool's public calls.  *)
(* Every call runs under the pool's latch_, so a call is one step.         *)
(***************************************************************************)
Impls == {"project1", "part_000"}
Frames == 0..(PoolSize - 1)
PoolPageIds == 0..PoolMaxPageId
indexvars == <<treevars, concvars, workload, abs, phase>>

Resident(page_id) == HashFind(page_table_, page_id).ret
FrameOf(page_id) == HashFind(page_table_, page_id).value

\* The replacer can stamp one more access.
CanRecord == replacer_.current_timestamp_ < MaxTimestamp

InitPool ==
  /\ EmptyTree
  /\ leaf_max_size_ = MaxLeafSize
  /\ internal_max_size_ = MaxInternalSize
  /\ workload = [max_key |-> MaxKey, max_val |-> MaxVal, max_page |-> MaxPageId,
                 limited |-> FALSE, removes_left |-> 0]
  /\ \E i \in Impls : PoolCtor(i)

PoolNewPage ==
  /\ bpm_next_page_id_ <= PoolMaxPageId
  /\ CanRecord
  /\ \E order \in Orders(DOMAIN replacer_.frame_table_) :
       LET r == NewPgImp(PoolState, order)
       IN /\ SetPool(r.B)
          /\ last' = [op |-> "NewPage", ret |-> r.ret, page_id |-> r.page_id,
                      frame_id |-> r.frame_id]
  /\ UNCHANGED <<impl, indexvars>>

PoolFetchPage(page_id) ==
  /\ page_id < bpm_next_page_id_
  /\ CanRecord
  /\ Resident(page_id) => pages_[FrameOf(page_id)].pin_count_ < MaxPinCount
  /\ \E order \in Orders(DOMAIN replacer_.frame_table_) :
       LET r == FetchPgImp(PoolState, page_id, order)
       IN /\ SetPool(r.B)
          /\ last' = NoPage
  /\ UNCHANGED <<impl, indexvars>>

PoolUnpinPage(page_id, is_dirty) ==
  /\ LET r == UnpinPgImp(PoolState, page_id, is_dirty)
     IN /\ SetPool(r.B)
        /\ last' = NoPage
  /\ UNCHANGED <<impl, indexvars>>

PoolFlushPage(page_id) ==
  /\ LET r == FlushPgImp(PoolState, page_id)
     IN /\ SetPool(r.B)
        /\ last' = NoPage
  /\ UNCHANGED <<impl, indexvars>>

PoolFlushAllPages ==
  /\ SetPool(FlushAllPgsImp(PoolState))
  /\ last' = NoPage
  /\ UNCHANGED <<impl, indexvars>>

PoolDeletePage(page_id) ==
  /\ LET r == DeletePgImp(PoolState, page_id)
     IN /\ SetPool(r.B)
        /\ last' = NoPage
  /\ UNCHANGED <<impl, indexvars>>

PoolWriteData(page_id, data) ==
  /\ Resident(page_id)
  /\ pages_[FrameOf(page_id)].pin_count_ > 0
  /\ SetPool(WriteData(PoolState, page_id, data))
  /\ last' = NoPage
  /\ UNCHANGED <<impl, indexvars>>

NextPool ==
  \/ PoolNewPage
  \/ \E page_id \in PoolPageIds : PoolFetchPage(page_id)
  \/ \E page_id \in PoolPageIds, is_dirty \in BOOLEAN : PoolUnpinPage(page_id, is_dirty)
  \/ \E page_id \in PoolPageIds \cup {INVALID_PAGE_ID} : PoolFlushPage(page_id)
  \/ PoolFlushAllPages
  \/ \E page_id \in PoolPageIds : PoolDeletePage(page_id)
  \/ \E page_id \in PoolPageIds, data \in 0..MaxData : PoolWriteData(page_id, data)

SpecPool == InitPool /\ [][NextPool]_vars

(***************************************************************************)
(* The replacer on its own: any sequence of RecordAccess, SetEvictable,    *)
(* Evict and Remove on a replacer of ReplNumFrames frames.  A call that    *)
(* ends in a fault leaves the replacer as it was.                          *)
(***************************************************************************)
ReplFrames == 0..(ReplNumFrames - 1)

InitRepl ==
  /\ EmptyTree
  /\ leaf_max_size_ = MaxLeafSize
  /\ internal_max_size_ = MaxInternalSize
  /\ workload = [max_key |-> MaxKey, max_val |-> MaxVal, max_page |-> MaxPageId,
                 limited |-> FALSE, removes_left |-> 0]
  /\ impl \in Impls
  /\ LET B == BufferPoolManagerInstance(PoolSize, ReplacerK)
     IN /\ pages_ = B.pages_
        /\ free_list_ = B.free_list_
        /\ page_table_ = B.page_table_
        /\ bpm_next_page_id_ = B.next_page_id_
        /\ disk = B.disk
  /\ replacer_ = LRUKReplacer(ReplNumFrames, ReplacerK)
  /\ last = NoPage

replvars == <<impl, pages_, free_list_, page_table_, bpm_next_page_id_, disk, last, indexvars>>

ReplRecordAccess(frame_id) ==
  /\ CanRecord
  /\ replacer_' = RecordAccessCall(replacer_, frame_id).R
  /\ UNCHANGED replvars

ReplSetEvictable(frame_id, set_evictable) ==
  /\ replacer_' = SetEvictableCall(replacer_, frame_id, set_evictable).R
  /\ UNCHANGED replvars

ReplEvict ==
  /\ \E order \in Orders(DOMAIN replacer_.frame_table_) :
       replacer_' = Evict(replacer_, order).R
  /\ UNCHANGED replvars

ReplRemove(frame_id) ==
  /\ replacer_' = RemoveCall(replacer_, frame_id).R
  /\ UNCHANGED replvars

NextRepl ==
  \/ \E frame_id \in ReplFrames : ReplRecordAccess(frame_id)
  \/ \E frame_id \in ReplFrames, set_evictable \in BOOLEAN :
       ReplSetEvictable(frame_id, set_evictable)
  \/ ReplEvict
  \/ \E frame_id \in ReplFrames : ReplRemove(frame_id)

SpecRepl == InitRepl /\ [][NextRepl]_vars

\* The same calls with any frame id, the ones outside 0..replacer_size_-1 included.
AnyFrameIds == (-1)..(ReplNumFrames + 1)

NextReplAny ==
  \/ \E frame_id \in AnyFrameIds : ReplRecordAccess(frame_id)
  \/ \E frame_id \in AnyFrameIds, set_evictable \in BOOLEAN :
       ReplSetEvictable(frame_id, set_evictable)
  \/ ReplEvict
  \/ \E frame_id \in AnyFrameIds : ReplRemove(frame_id)

SpecReplAny == InitRepl /\ [][NextReplAny]_vars

(***************************************************************************)
(* The replacer scenario: a replacer of 7 frames with K = 2 records the     *)
(* accesses of ScenarioAccesses in their order, then frames 1..6 are set    *)
(* evictable, in any order, then Evict is called until it returns false.    *)
(* last holds how far the scenario is and the victims so far.               *)
(***************************************************************************)
ScenarioAccesses == <<1, 2, 3, 4, 1, 2, 5, 1, 2, 3, 4>>
ScenarioMarked == 1..6

InitScenario ==
  /\ EmptyTree
  /\ leaf_max_size_ = MaxLeafSize
  /\ internal_max_size_ = MaxInternalSize
  /\ workload = [max_key |-> MaxKey, max_val |-> MaxVal, max_page |-> MaxPageId,
                 limited |-> FALSE, removes_left |-> 0]
  /\ impl \in Impls
  /\ LET B == BufferPoolManagerInstance(PoolSize, ReplacerK)
     IN /\ pages_ = B.pages_
        /\ free_list_ = B.free_list_
        /\ page_table_ = B.page_table_
        /\ bpm_next_page_id_ = B.next_page_id_
        /\ disk = B.disk
  /\ replacer_ = LRUKReplacer(7, 2)
  /\ last = [op |-> "scenario", accessed |-> 0, marked |-> {}, victims |-> <<>>]

scenariovars == <<impl, pages_, free_list_, page_table_, bpm_next_page_id_, disk, indexvars>>

ScenarioRecordAccess ==
  /\ last.accessed < Len(ScenarioAccesses)
  /\ replacer_' = RecordAccessCall(replacer_, ScenarioAccesses[last.accessed + 1]).R
  /\ last' = [last EXCEPT !.accessed = @ + 1]
  /\ UNCHANGED scenariovars

ScenarioSetEvictable(frame_id) ==
  /\ last.accessed = Len(ScenarioAccesses)
  /\ frame_id \notin last.marked
  /\ replacer_' = SetEvictableCall(replacer_, frame_id, TRUE).R
  /\ last' = [last EXCEPT !.marked = @ \cup {frame_id}]
  /\ UNCHANGED scenariovars

ScenarioEvict ==
  /\ last.marked = ScenarioMarked
  /\ \E order \in Orders(DOMAIN replacer_.frame_table_) :
       LET ev == Evict(replacer_, order)
       IN /\ ev.ret
          /\ replacer_' = ev.R
          /\ last' = [last EXCEPT !.victims = Append(@, ev.frame_id)]
  /\ UNCHANGED scenariovars

NextScenario ==
  \/ ScenarioRecordAccess
  \/ \E frame_id \in ScenarioMarked : ScenarioSetEvictable(frame_id)
  \/ ScenarioEvict

SpecScenario == InitScenario /\ [][NextScenario]_vars

(***************************************************************************)
(* The pool scenario: a pool of 3 frames with K = 2.  NewPage three times   *)
(* (p1, p2, p3), Unpin(p1, false), Unpin(p2, true), then NewPage three      *)
(* times more.  In between the caller writes what it likes into the pages   *)
(* it holds pinned.  last holds the number of scripted calls made (step),   *)
(* the page id and frame of every NewPage (pids, frames; INVALID_PAGE_ID    *)
(* and -1 for a null return) and the data last written to each page.        *)
(***************************************************************************)
ScenarioPageIds == 0..5

InitPoolScenario ==
  /\ EmptyTree
  /\ leaf_max_size_ = MaxLeafSize
  /\ internal_max_size_ = MaxInternalSize
  /\ workload = [max_key |-> MaxKey, max_val |-> MaxVal, max_page |-> MaxPageId,
                 limited |-> FALSE, removes_left |-> 0]
  /\ impl \in Impls
  /\ LET B == BufferPoolManagerInstance(3, 2)
     IN /\ pages_ = B.pages_
        /\ free_list_ = B.free_list_
        /\ page_table_ = B.page_table_
        /\ replacer_ = B.replacer_
        /\ bpm_next_page_id_ = B.next_page_id_
  /\ disk = [p \in ScenarioPageIds |-> 0]
  /\ last = [op |-> "scenario", step |-> 0, pids |-> <<>>, frames |-> <<>>,
             data |-> [p \in ScenarioPageIds |-> 0]]

ScenarioPoolState == [PoolState EXCEPT !.pool_size_ = 3]

PoolScenarioNewPage ==
  /\ last.step \in {0, 1, 2, 5, 6, 7}
  /\ \E order \in Orders(DOMAIN replacer_.frame_table_) :
       LET r == NewPgImp(ScenarioPoolState, order)
       IN /\ SetPool(r.B)
          /\ last' = [last EXCEPT !.step = @ + 1, !.pids = Append(@, r.page_id),
                                  !.frames = Append(@, r.frame_id)]
  /\ UNCHANGED <<impl, indexvars>>

PoolScenarioUnpinPage ==
  /\ last.step \in {3, 4}
  /\ SetPool(UnpinPgImp(ScenarioPoolState, last.pids[last.step - 2], last.step = 4).B)
  /\ last' = [last EXCEPT !.step = @ + 1]
  /\ UNCHANGED <<impl, indexvars>>

PoolScenarioWriteData(page_id, data) ==
  /\ Resident(page_id)
  /\ pages_[FrameOf(page_id)].pin_count_ > 0
  /\ SetPool(WriteData(ScenarioPoolState, page_id, data))
  /\ last' = [last EXCEPT !.data[page_id] = data]
  /\ UNCHANGED <<impl, indexvars>>

NextPoolScenario ==
  \/ PoolScenarioNewPage
  \/ PoolScenarioUnpinPage
  \/ \E page_id \in ScenarioPageIds, data \in 0..MaxData : PoolScenarioWriteData(page_id, data)

SpecPoolScenario == InitPoolScenario /\ [][NextPoolScenario]_vars

(***************************************************************************)
(* The hash table on its own: any sequence of Insert, Remove and Find on a *)
(* fresh ExtendibleHashTable<int, int>, in page_table_; impl says whether  *)
(* it is project1's table or project2's.  abs is the map the calls define. *)
(***************************************************************************)
HashImpls == {"project1", "project2"}
HashKeys == 1..HashMaxKey
HashValues == 1..HashMaxVal

InitHash ==
  /\ EmptyTree
  /\ leaf_max_size_ = MaxLeafSize
  /\ internal_max_size_ = MaxInternalSize
  /\ workload = [max_key |-> MaxKey, max_val |-> MaxVal, max_page |-> MaxPageId,
                 limited |-> FALSE, removes_left |-> 0]
  /\ impl \in HashImpls
  /\ LET B == BufferPoolManagerInstance(PoolSize, ReplacerK)
     IN /\ pages_ = B.pages_
        /\ free_list_ = B.free_list_
        /\ replacer_ = B.replacer_
        /\ bpm_next_page_id_ = B.next_page_id_
        /\ disk = B.disk
  /\ page_table_ = ExtendibleHashTable(HashBucketSize)
  /\ last = NoPage

hashvars == <<impl, pages_, free_list_, replacer_, bpm_next_page_id_, disk, treevars, concvars,
              workload, phase>>

TableInsert(H, key, value) ==
  IF impl = "project2" THEN HashInsert2(H, key, value) ELSE HashInsert(H, key, value)

HashTableInsert(key, value) ==
  /\ page_table_' = TableInsert(page_table_, key, value)
  /\ abs' = [abs EXCEPT ![key] = value]
  /\ last' = NoPage
  /\ UNCHANGED hashvars

HashTableRemove(key) ==
  /\ page_table_' = HashRemove(page_table_, key).H
  /\ abs' = [abs EXCEPT ![key] = 0]
  /\ last' = NoPage
  /\ UNCHANGED hashvars

HashTableFind(key) ==
  /\ last' = [op |-> "Find", ret |-> HashFind(page_table_, key).ret, page_id |-> key,
              frame_id |-> HashFind(page_table_, key).value]
  /\ UNCHANGED <<page_table_, abs, hashvars>>

NextHash ==
  \/ \E key \in HashKeys, value \in HashValues : HashTableInsert(key, value)
  \/ \E key \in HashKeys : HashTableRemove(key)
  \/ \E key \in HashKeys : HashTableFind(key)

SpecHash == InitHash /\ [][NextHash]_vars

(***************************************************************************)
(* Insert of the hash table, one turn of its while (true) loop at a time.  *)
(* last holds the call in progress: its key and value, whether it is still *)
(* running and the bucket count when it began.  Every call stores the      *)
(* value 1: the loop does not look at the value.  The thread in the loop   *)
(* keeps running: weak fairness of HashInsertTurn.                         *)
(***************************************************************************)
\* One turn of the loop with a split that does nothing: the full bucket stays full.
HashInsertStep_NoSplit(H, key, value) ==
  LET index == IndexOf(H, key)
      bucket == H.dir_[index + 1]
      r == BucketInsert(H.buckets[bucket], key, value)
  IN IF r.ret THEN [done |-> TRUE, H |-> [H EXCEPT !.buckets[bucket] = r.bucket]]
     ELSE [done |-> FALSE, H |-> H]

\* One turn of the loop: done when bucket->Insert succeeded; otherwise the
\* directory is doubled if the bucket is at global depth, and the bucket is split.
HashInsertStep(H, key, value) ==
  LET index == IndexOf(H, key)
      bucket == H.dir_[index + 1]
      r == BucketInsert(H.buckets[bucket], key, value)
      H1 == IF H.buckets[bucket].depth_ = H.global_depth_
            THEN [H EXCEPT !.global_depth_ = @ + 1, !.dir_ = @ \o @]
            ELSE H
  IN IF r.ret THEN [done |-> TRUE, H |-> [H EXCEPT !.buckets[bucket] = r.bucket]]
     ELSE [done |-> FALSE,
           H |-> IF impl = "project2" THEN RedistributeBucket(H1, bucket)
                 ELSE SplitBucket(H1, bucket, index)]

NoCall == [op |-> "Insert", running |-> FALSE, key |-> 0, value |-> 0, buckets_before |-> 1]

InitHashLoop ==
  /\ EmptyTree
  /\ leaf_max_size_ = MaxLeafSize
  /\ internal_max_size_ = MaxInternalSize
  /\ workload = [max_key |-> MaxKey, max_val |-> MaxVal, max_page |-> MaxPageId,
                 limited |-> FALSE, removes_left |-> 0]
  /\ impl \in HashImpls
  /\ LET B == BufferPoolManagerInstance(PoolSize, ReplacerK)
     IN /\ pages_ = B.pages_
        /\ free_list_ = B.free_list_
        /\ replacer_ = B.replacer_
        /\ bpm_next_page_id_ = B.next_page_id_
        /\ disk = B.disk
  /\ \E bucket_size \in 1..HashBucketSize : page_table_ = ExtendibleHashTable(bucket_size)
  /\ last = NoCall

\* Insert(key, value) is called: the caller enters the loop.
HashInsertBegin(key, value) ==
  /\ ~last.running
  /\ last' = [op |-> "Insert", running |-> TRUE, key |-> key, value |-> value,
              buckets_before |-> page_table_.num_buckets_]
  /\ UNCHANGED <<page_table_, abs, hashvars>>

HashInsertTurn ==
  /\ last.running
  /\ LET r == HashInsertStep(page_table_, last.key, last.value)
     IN /\ page_table_' = r.H
        /\ last' = [last EXCEPT !.running = ~r.done]
  /\ UNCHANGED <<abs, hashvars>>

HashLoopRemove(key) ==
  /\ ~last.running
  /\ page_table_' = HashRemove(page_table_, key).H
  /\ UNCHANGED <<last, abs, hashvars>>

NextHashLoop ==
  \/ \E key \in HashKeys : HashInsertBegin(key, 1)
  \/ HashInsertTurn
  \/ \E key \in HashKeys : HashLoopRemove(key)

SpecHashLoop == InitHashLoop /\ [][NextHashLoop]_vars /\ WF_vars(HashInsertTurn)

(***************************************************************************)
(* What the claims speak of: the tree as reached from root_page_id_.       *)
(***************************************************************************)
Stored == {k \in Keys : abs[k] # 0}

RECURSIVE Children(_)
Children(arr) == IF arr = <<>> THEN <<>> ELSE <<arr[1][2]>> \o Children(Tail(arr))

\* The leaves under page_id, left to right.
RECURSIVE LeavesUnder(_, _)
RECURSIVE LeavesOfAll(_, _)
LeavesUnder(P, page_id) ==
  IF P[page_id].leaf THEN <<page_id>> ELSE LeavesOfAll(P, Children(P[page_id].arr))
LeavesOfAll(P, pids) ==
  IF pids = <<>> THEN <<>> ELSE LeavesUnder(P, Head(pids)) \o LeavesOfAll(P, Tail(pids))

\* The internal and leaf pages under page_id, page_id included.
RECURSIVE NodesUnder(_, _)
NodesUnder(P, page_id) ==
  IF P[page_id].leaf THEN {page_id}
  ELSE {page_id} \cup UNION {NodesUnder(P, P[page_id].arr[i][2]) : i \in 1..Len(P[page_id].arr)}

TreeNodes == IF root_page_id_ = INVALID_PAGE_ID THEN {} ELSE NodesUnder(pages, root_page_id_)

KeysOf(arr) == {arr[i][1] : i \in 1..Len(arr)}

\* The keys stored in the leaves under page_id.
SubtreeKeys(P, page_id) ==
  LET ls == LeavesUnder(P, page_id)
  IN UNION {KeysOf(P[ls[i]].arr) : i \in 1..Len(ls)}

\* Begin(): from the root down by ValueAt(0).
RECURSIVE LeftmostLeaf(_, _)
LeftmostLeaf(P, page_id) ==
  IF P[page_id].leaf THEN page_id ELSE LeftmostLeaf(P, ValueAt(P[page_id].arr, 0))

\* IndexIterator::operator++ across leaves: the leaves from page_id on by next_page_id
\* (fuel stops a walk that a cycle would make endless).
RECURSIVE LeafChain(_, _, _)
LeafChain(P, page_id, fuel) ==
  IF page_id = INVALID_PAGE_ID \/ fuel = 0 \/ page_id \notin DOMAIN P THEN <<>>
  ELSE <<page_id>> \o LeafChain(P, P[page_id].next, fuel - 1)

RECURSIVE ChainKeys(_, _)
ChainKeys(P, chain) ==
  IF chain = <<>> THEN <<>>
  ELSE [i \in 1..Len(P[Head(chain)].arr) |-> P[Head(chain)].arr[i][1]] \o ChainKeys(P, Tail(chain))

Scan == IF root_page_id_ = INVALID_PAGE_ID THEN <<>>
        ELSE ChainKeys(pages, LeafChain(pages, LeftmostLeaf(pages, root_page_id_),
                                        Cardinality(DOMAIN pages) + 1))

\* The keys held by the leaves of the tree.
TreeKeys == IF root_page_id_ = INVALID_PAGE_ID THEN {} ELSE SubtreeKeys(pages, root_page_id_)

StrictlyIncreasing(s) == \A i \in 1..(Len(s) - 1) : s[i] < s[i + 1]

(***************************************************************************)
(* C1: GetValue(k) returns true with value v exactly when Insert(k, v) has *)
(* succeeded and no Remove(k) has been issued since; otherwise it returns  *)
(* false with an empty result.                                             *)
(***************************************************************************)
C1_GetValueIsMap ==
  \A k \in Keys :
    LET g == GetValue(pages, root_page_id_, k)
    IN /\ g.found = (abs[k] # 0)
       /\ g.value = abs[k]

(***************************************************************************)
(* C2: the walk from the leftmost leaf along next_page_id visits every     *)
(* leaf of the tree exactly once, yields exactly the stored keys in        *)
(* strictly increasing order, and ends at a leaf whose next_page_id is     *)
(* INVALID.                                                                *)
(***************************************************************************)
C2_LeafChainScan ==
  /\ root_page_id_ # INVALID_PAGE_ID =>
       LeafChain(pages, LeftmostLeaf(pages, root_page_id_), Cardinality(DOMAIN pages) + 1)
         = LeavesUnder(pages, root_page_id_)
  /\ StrictlyIncreasing(Scan)
  /\ {Scan[i] : i \in 1..Len(Scan)} = Stored

(***************************************************************************)
(* C3: for every internal node and every index i >= 1, the keys in the     *)
(* subtree of child[i-1] are < key[i] and the keys in the subtree of       *)
(* child[i] are >= key[i].                                                 *)
(***************************************************************************)
C3_SeparatorOrder ==
  \A n \in TreeNodes :
    ~pages[n].leaf =>
      \A i \in 1..(Len(pages[n].arr) - 1) :
        /\ \A k \in SubtreeKeys(pages, ValueAt(pages[n].arr, i - 1)) : k < KeyAt(pages[n].arr, i)
        /\ \A k \in SubtreeKeys(pages, ValueAt(pages[n].arr, i)) : k >= KeyAt(pages[n].arr, i)

(***************************************************************************)
(* C4: every non-root node has min_size <= size <= max_size, where         *)
(* min_size = ceil(capacity / 2).                                          *)
(***************************************************************************)
C4_SizeBounds ==
  \A n \in TreeNodes :
    n # root_page_id_ =>
      /\ (GetMaxSize(pages[n]) + 1) \div 2 <= GetSize(pages[n])
      /\ GetSize(pages[n]) <= GetMaxSize(pages[n])

(***************************************************************************)
(* C5: after inserting N distinct keys into the empty tree and removing    *)
(* all of them, in any order, the tree is empty: root_page_id_ is INVALID. *)
(***************************************************************************)
C5_RoundTripEmpty ==
  (phase = "remove" /\ Stored = {}) => root_page_id_ = INVALID_PAGE_ID

(***************************************************************************)
(* C6: Insert of a key the tree already holds returns false and changes    *)
(* nothing in the tree (its pages with their entries, sizes and leaf       *)
(* chain, root_page_id_); Insert of a key not present returns true.        *)
(***************************************************************************)
C6_DuplicateInsert ==
  \A k \in Keys, v \in Values :
    LET r == TreeInsert(TreeState, k, v)
    IN IF k \in TreeKeys
       THEN r.ret = FALSE /\ r.S = TreeState
       ELSE r.ret = TRUE

(***************************************************************************)
(* C7: when the threads have only called Insert, each on keys of its own   *)
(* (pairwise disjoint) key set, and every call has returned, every Insert  *)
(* has returned true, GetValue finds every inserted key, the leaf chain    *)
(* enumerates the keys in sorted order, and the structural invariants of   *)
(* the tree (separator order, node sizes) hold.                            *)
(***************************************************************************)
C7_ConcurrentInserts ==
  (hist.inserts_only /\ \A t \in Threads : txn[t].pc = "idle") =>
    /\ hist.all_true
    /\ \A k \in Keys :
         abs[k] # 0 => GetValue(pages, root_page_id_, k) = [found |-> TRUE, value |-> abs[k]]
    /\ StrictlyIncreasing(Scan)
    /\ {Scan[i] : i \in 1..Len(Scan)} = Stored
    /\ C3_SeparatorOrder
    /\ C4_SizeBounds

(***************************************************************************)
(* C8: a writer that has latched a safe leaf (Insert: size + 1 < max_size, *)
(* Remove: size - 1 >= min_size) holds that leaf's latch only: the latches *)
(* of the ancestors and tree_guard_ were released during the descent.      *)
(***************************************************************************)
LeafSafe(t) ==
  LET node == pages[txn[t].page_id]
  IN IF txn[t].mode = INSERT_MODE
     THEN GetSize(node) + 1 < GetMaxSize(node)
     ELSE GetSize(node) - 1 >= (GetMaxSize(node) + 1) \div 2

C8_WriteCrabbing ==
  \A t \in Threads :
    (txn[t].pc = "leaf" /\ IsWrite(t) /\ LeafSafe(t)) =>
      /\ txn[t].page_set = <<txn[t].page_id>>
      /\ tree_guard_.writer # t
      /\ \A l \in latches : l.thread = t => l.page = txn[t].page_id

(***************************************************************************)
(* C9: when Remove passes the page ids of the deleted-page set to          *)
(* DeletePage, the operation holds no page latch and not tree_guard_.      *)
(***************************************************************************)
C9_DeferredDelete ==
  \A t \in Threads :
    (txn[t].pc = "reclaim" /\ txn[t].deleted_page_set # {}) =>
      /\ tree_guard_.writer # t
      /\ \A l \in latches : l.thread # t
      /\ txn[t].page_set = <<>>

(***************************************************************************)
(* C10: whenever NewPage returns a non-null page, in the resulting state   *)
(* that page has pin_count 1, is not dirty, has zeroed contents, the page  *)
(* table maps its page id to its frame, and the replacer tracks the frame  *)
(* as non-evictable: no Evict that follows can choose it.                  *)
(***************************************************************************)
C10_NewPage ==
  (last.op = "NewPage" /\ last.ret) =>
    LET page == pages_[last.frame_id]
    IN /\ page.page_id_ = last.page_id
       /\ page.pin_count_ = 1
       /\ ~page.is_dirty_
       /\ page.data_ = 0
       /\ HashFind(page_table_, last.page_id) = [ret |-> TRUE, value |-> last.frame_id]
       /\ last.frame_id \in DOMAIN replacer_.frame_table_
       /\ ~replacer_.frame_table_[last.frame_id].is_evictable
       /\ \A order \in Orders(DOMAIN replacer_.frame_table_) :
            Evict(replacer_, order).frame_id # last.frame_id

\* NewPage has returned a page in a frame that held another page before, after a
\* page with contents was written back to disk.
C10_Witness ==
  /\ last.op = "NewPage" /\ last.ret
  /\ last.page_id >= PoolSize
  /\ free_list_ = <<>>
  /\ \E p \in 0..PoolMaxPageId : disk[p] # 0 /\ ~HashFind(page_table_, p).ret

(***************************************************************************)
(* C11: UnpinPage(pid, dirty) returns false and leaves the whole pool      *)
(* state unchanged when pid is not resident or its pin count is already 0, *)
(* whatever the dirty argument is.                                         *)
(***************************************************************************)
C11_UnpinNoop ==
  \A page_id \in PoolPageIds, is_dirty \in BOOLEAN :
    (~Resident(page_id) \/ pages_[FrameOf(page_id)].pin_count_ = 0) =>
      LET r == UnpinPgImp(PoolState, page_id, is_dirty)
      IN ~r.ret /\ r.B = PoolState

\* UnpinPage(pid, true) is refused for a resident clean page with pin count 0 while
\* another allocated page is not resident.
C11_Witness ==
  \E page_id \in PoolPageIds, other \in PoolPageIds :
    /\ Resident(page_id)
    /\ pages_[FrameOf(page_id)].pin_count_ = 0
    /\ ~pages_[FrameOf(page_id)].is_dirty_
    /\ ~UnpinPgImp(PoolState, page_id, TRUE).ret
    /\ other < bpm_next_page_id_ /\ ~Resident(other)
    /\ ~UnpinPgImp(PoolState, other, TRUE).ret

DiskAfterEviction(old_page) ==
  [p \in DOMAIN disk |->
     IF old_page.is_dirty_ /\ p = old_page.page_id_ THEN old_page.data_ ELSE disk[p]]

(***************************************************************************)
(* C12: when NewPage or FetchPage reuses the frame of an evicted page      *)
(* whose dirty flag is set, the victim's contents are written to disk      *)
(* under its page id before the frame is overwritten, so the disk then     *)
(* holds the victim's last in-memory contents; a clean victim causes no    *)
(* write.                                                                  *)
(***************************************************************************)
C12_VictimWriteBack ==
  \A order \in Orders(DOMAIN replacer_.frame_table_) :
    LET ev == Evict(replacer_, order)
    IN (free_list_ = <<>> /\ ev.ret) =>
         LET old_page == pages_[ev.frame_id]
         IN /\ bpm_next_page_id_ <= PoolMaxPageId =>
                 NewPgImp(PoolState, order).B.disk = DiskAfterEviction(old_page)
            /\ \A page_id \in PoolPageIds :
                 ~Resident(page_id) =>
                   FetchPgImp(PoolState, page_id, order).B.disk = DiskAfterEviction(old_page)

\* The pool is full and the replacer's victim is a dirty page whose contents differ
\* from the disk's and from those of the page fetched into its frame.
C12_Witness ==
  /\ free_list_ = <<>>
  /\ \E order \in Orders(DOMAIN replacer_.frame_table_), page_id \in PoolPageIds :
       LET ev == Evict(replacer_, order)
           r == FetchPgImp(PoolState, page_id, order)
       IN /\ ev.ret
          /\ pages_[ev.frame_id].is_dirty_
          /\ pages_[ev.frame_id].data_ # disk[pages_[ev.frame_id].page_id_]
          /\ ~Resident(page_id)
          /\ r.ret
          /\ r.B.pages_[r.frame_id].data_ # pages_[ev.frame_id].data_
          /\ r.B.disk[pages_[ev.frame_id].page_id_] = pages_[ev.frame_id].data_

(***************************************************************************)
(* C13: immediately after FlushAllPages every resident page has            *)
(* is_dirty == false and the disk contents recorded for its page id equal  *)
(* its in-memory contents; pin counts, the page table, the free list and   *)
(* the replacer are unchanged by the call.                                 *)
(***************************************************************************)
C13_FlushAll ==
  LET B == FlushAllPgsImp(PoolState)
  IN /\ \A page_id \in PoolPageIds :
          Resident(page_id) =>
            LET page == B.pages_[FrameOf(page_id)]
            IN /\ ~page.is_dirty_
               /\ B.disk[page_id] = page.data_
     /\ \A f \in Frames : B.pages_[f].pin_count_ = pages_[f].pin_count_
     /\ B.page_table_ = page_table_
     /\ B.free_list_ = free_list_
     /\ B.replacer_ = replacer_

AllPinned ==
  \A f \in Frames : pages_[f].page_id_ # INVALID_PAGE_ID /\ pages_[f].pin_count_ > 0

(***************************************************************************)
(* C14: when every one of the pool_size frames holds a page with           *)
(* pin_count > 0, FetchPage of a non-resident page id and NewPage both     *)
(* return null, without evicting anything, without consuming a page id and *)
(* without changing any pool state; FetchPage of an already resident page  *)
(* still succeeds.                                                         *)
(***************************************************************************)
C14_AllPinned ==
  AllPinned =>
    \A order \in Orders(DOMAIN replacer_.frame_table_) :
      /\ LET r == NewPgImp(PoolState, order)
         IN ~r.ret /\ r.B = PoolState
      /\ \A page_id \in PoolPageIds :
           LET r == FetchPgImp(PoolState, page_id, order)
           IN IF Resident(page_id)
              THEN /\ r.ret
                   /\ r.frame_id = FrameOf(page_id)
                   /\ r.B.pages_[r.frame_id] =
                        [pages_[r.frame_id] EXCEPT !.pin_count_ = @ + 1]
                   /\ r.B.page_table_ = page_table_
                   /\ r.B.disk = disk
              ELSE ~r.ret /\ r.B = PoolState

\* Every frame is pinned, an allocated page is not resident and cannot be fetched,
\* NewPage fails, and a resident page is fetched again.
C14_Witness ==
  /\ AllPinned
  /\ \E order \in Orders(DOMAIN replacer_.frame_table_), page_id \in PoolPageIds,
        other \in PoolPageIds :
       /\ page_id < bpm_next_page_id_
       /\ ~Resident(page_id)
       /\ ~FetchPgImp(PoolState, page_id, order).ret
       /\ ~NewPgImp(PoolState, order).ret
       /\ Resident(other)
       /\ FetchPgImp(PoolState, other, order).ret

DeletedFrom(B, page_id, frame_id) ==
  /\ B.disk = [disk EXCEPT ![page_id] =
                 IF pages_[frame_id].is_dirty_ THEN pages_[frame_id].data_ ELSE @]
  /\ ~HashFind(B.page_table_, page_id).ret
  /\ \A other \in PoolPageIds \ {page_id} :
       HashFind(B.page_table_, other) = HashFind(page_table_, other)
  /\ frame_id \notin DOMAIN B.replacer_.frame_table_
  /\ Size(B.replacer_) = Size(replacer_) - 1
  /\ B.pages_ = [pages_ EXCEPT ![frame_id] = Page]
  /\ B.free_list_ = Append(free_list_, frame_id)
  /\ B.next_page_id_ = bpm_next_page_id_

(***************************************************************************)
(* C15: DeletePage(pid) returns true with no state change when pid is not  *)
(* resident, returns false with no state change when pid is resident with  *)
(* pin_count > 0, and otherwise writes the page to disk if dirty, removes  *)
(* pid from the page table, untracks the frame from the replacer (Size     *)
(* decreases by one), resets the frame (page_id INVALID, pin 0, clean),    *)
(* appends the frame to the free list and returns true.                    *)
(***************************************************************************)
C15_DeletePage ==
  \A page_id \in PoolPageIds :
    LET r == DeletePgImp(PoolState, page_id)
    IN IF ~Resident(page_id)
       THEN r.ret /\ ~r.threw /\ r.B = PoolState
       ELSE IF pages_[FrameOf(page_id)].pin_count_ > 0
       THEN ~r.ret /\ ~r.threw /\ r.B = PoolState
       ELSE r.ret /\ ~r.threw /\ DeletedFrom(r.B, page_id, FrameOf(page_id))

\* A dirty unpinned page whose contents differ from the disk's is deleted, while
\* another page is pinned and a third, allocated, is not resident.
C15_Witness ==
  \E page_id \in PoolPageIds, pinned \in PoolPageIds, gone \in PoolPageIds :
    /\ Resident(page_id)
    /\ pages_[FrameOf(page_id)].pin_count_ = 0
    /\ pages_[FrameOf(page_id)].is_dirty_
    /\ pages_[FrameOf(page_id)].data_ # disk[page_id]
    /\ DeletePgImp(PoolState, page_id).ret
    /\ Resident(pinned) /\ pages_[FrameOf(pinned)].pin_count_ > 0
    /\ ~DeletePgImp(PoolState, pinned).ret
    /\ gone < bpm_next_page_id_ /\ ~Resident(gone)
    /\ DeletePgImp(PoolState, gone).ret

\* The places of the page table's entries: bucket b of the directory, position i
\* of its list.
TableSlots ==
  {s \in {dir_i \in 1..Len(page_table_.buckets) :
            \E d \in DOMAIN page_table_.dir_ : page_table_.dir_[d] = dir_i}
         \X (1..PoolBucketSize) :
     s[2] <= Len(page_table_.buckets[s[1]].list_)}

SlotKey(s) == page_table_.buckets[s[1]].list_[s[2]][1]

SlotValue(s) == page_table_.buckets[s[1]].list_[s[2]][2]

FreeListPlaces(f) == {i \in DOMAIN free_list_ : free_list_[i] = f}

SlotsOfFrame(f) == {s \in TableSlots : SlotValue(s) = f}

HoldsUnpinnedPage(f) ==
  /\ Resident(pages_[f].page_id_)
  /\ FrameOf(pages_[f].page_id_) = f
  /\ pages_[f].pin_count_ = 0

MarkedEvictable(f) ==
  f \in DOMAIN replacer_.frame_table_ /\ replacer_.frame_table_[f].is_evictable

StillResident(B, page_id) ==
  HashFind(B.page_table_, page_id) = [ret |-> TRUE, value |-> FrameOf(page_id)]
  /\ B.pages_[FrameOf(page_id)].page_id_ = page_id

DirtyKept(B, page_id) ==
  LET hit == HashFind(B.page_table_, page_id)
  IN hit.ret => B.pages_[hit.value].is_dirty_

C19_FlushPage ==
  \A page_id \in PoolPageIds \cup {INVALID_PAGE_ID} :
    LET r == FlushPgImp(PoolState, page_id)
    IN IF Resident(page_id)
       THEN /\ r.ret
            /\ r.B = [PoolState EXCEPT
                        !.disk[page_id] = pages_[FrameOf(page_id)].data_,
                        !.pages_[FrameOf(page_id)].is_dirty_ = FALSE]
       ELSE ~r.ret /\ r.B = PoolState

\* A clean resident page whose contents differ from the disk's is flushed, a dirty
\* one too, and an allocated page that is not resident is refused.
C19_Witness ==
  \E clean \in PoolPageIds, dirty \in PoolPageIds, gone \in PoolPageIds :
    /\ Resident(clean)
    /\ ~pages_[FrameOf(clean)].is_dirty_
    /\ pages_[FrameOf(clean)].data_ # disk[clean]
    /\ FlushPgImp(PoolState, clean).B.disk[clean] = pages_[FrameOf(clean)].data_
    /\ Resident(dirty)
    /\ pages_[FrameOf(dirty)].is_dirty_
    /\ FlushPgImp(PoolState, dirty).ret
    /\ gone < bpm_next_page_id_ /\ ~Resident(gone)
    /\ ~FlushPgImp(PoolState, gone).ret

EvictableFrames(R) == {f \in DOMAIN R.frame_table_ : R.frame_table_[f].is_evictable}

(***************************************************************************)
(* C20: after any sequence of RecordAccess, SetEvictable, Evict and Remove *)
(* calls on the LRU-K replacer, Size() equals the number of currently      *)
(* tracked frames whose evictable flag is true (SetEvictable with an       *)
(* unchanged flag, or on an untracked frame, does not change Size).        *)
(***************************************************************************)
C20_SizeCountsEvictable ==
  /\ Size(replacer_) = Cardinality(EvictableFrames(replacer_))
  /\ \A frame_id \in ReplFrames, set_evictable \in BOOLEAN :
       (\/ frame_id \notin DOMAIN replacer_.frame_table_
        \/ replacer_.frame_table_[frame_id].is_evictable = set_evictable) =>
         Size(SetEvictable(replacer_, frame_id, set_evictable)) = Size(replacer_)

\* The clock has been stamped MaxTimestamp times and the only tracked frame has a
\* single access, the last one: the frames of the earlier accesses were evicted
\* or removed.  It is evictable, a second frame is not tracked.
C20_Witness ==
  /\ replacer_.current_timestamp_ = MaxTimestamp
  /\ \E frame_id \in ReplFrames :
       /\ DOMAIN replacer_.frame_table_ = {frame_id}
       /\ replacer_.frame_table_[frame_id].history = <<MaxTimestamp>>
       /\ replacer_.frame_table_[frame_id].is_evictable
  /\ Size(replacer_) = 1

\* The evictable frames with fewer than k recorded accesses.
YoungFrames(R) == {f \in EvictableFrames(R) : Len(R.frame_table_[f].history) < R.k_}

(***************************************************************************)
(* C21: if at least one evictable frame has fewer than K recorded          *)
(* accesses, Evict returns a frame with fewer than K accesses, never a     *)
(* frame that has K or more accesses, whatever the timestamps of the       *)
(* frames with K accesses are.                                             *)
(***************************************************************************)
C21_EvictPrefersInf ==
  YoungFrames(replacer_) # {} =>
    \A order \in Orders(DOMAIN replacer_.frame_table_) :
      LET ev == Evict(replacer_, order)
      IN ev.ret /\ ev.frame_id \in YoungFrames(replacer_)

\* An evictable frame with K accesses, all of them older than the single access of
\* an evictable frame with fewer than K; Evict returns the latter.
C21_Witness ==
  \E old \in EvictableFrames(replacer_), young \in YoungFrames(replacer_) :
    /\ Len(replacer_.frame_table_[old].history) = ReplacerK
    /\ replacer_.frame_table_[old].history[ReplacerK] < replacer_.frame_table_[young].history[1]
    /\ \A order \in Orders(DOMAIN replacer_.frame_table_) :
         Evict(replacer_, order).frame_id = young

\* The first access a frame with fewer than k accesses still remembers.
FirstAccess(R, f) == R.frame_table_[f].history[1]

(***************************************************************************)
(* C22: among the evictable frames with fewer than K recorded accesses     *)
(* (+infinity backward K-distance), Evict returns the one whose earliest   *)
(* recorded access timestamp is smallest, independent of the order in      *)
(* which frames are stored or iterated.                                    *)
(***************************************************************************)
C22_InfTieByEarliest ==
  YoungFrames(replacer_) # {} =>
    \A order \in Orders(DOMAIN replacer_.frame_table_) :
      LET ev == Evict(replacer_, order)
      IN /\ ev.ret
         /\ ev.frame_id \in YoungFrames(replacer_)
         /\ \A f \in YoungFrames(replacer_) :
              FirstAccess(replacer_, ev.frame_id) <= FirstAccess(replacer_, f)

\* All three frames are evictable with fewer than K accesses, and the frame with
\* the earliest access is neither the smallest nor the largest frame id.
C22_Witness ==
  /\ YoungFrames(replacer_) = ReplFrames
  /\ \E f \in ReplFrames :
       /\ \E g \in ReplFrames : g < f
       /\ \E g \in ReplFrames : g > f
       /\ \A g \in ReplFrames \ {f} : FirstAccess(replacer_, f) < FirstAccess(replacer_, g)
       /\ \A order \in Orders(DOMAIN replacer_.frame_table_) :
            Evict(replacer_, order).frame_id = f

\* Replacer R2 is R without the entry of victim and with Size one lower; a
\* RecordAccess of victim then starts a history of one access, not evictable.
Untracked(R, R2, victim) ==
  /\ victim \in EvictableFrames(R)
  /\ victim \notin DOMAIN R2.frame_table_
  /\ R2 = [R EXCEPT !.frame_table_ = Erase(@, victim), !.curr_size_ = @ - 1]
  /\ Size(R2) = Size(R) - 1
  /\ LET again == RecordAccess(R2, victim).frame_table_[victim]
     IN again.history = <<R.current_timestamp_ + 1>> /\ ~again.is_evictable

(***************************************************************************)
(* C23: Evict returns false, leaving the replacer unchanged, if and only   *)
(* if no tracked frame is evictable; when it returns true the victim was   *)
(* evictable, is no longer tracked (its access history is discarded, so a  *)
(* later RecordAccess starts a fresh history with evictable = false), and  *)
(* Size() has decreased by exactly one.                                    *)
(***************************************************************************)
C23_EvictResult ==
  \A order \in Orders(DOMAIN replacer_.frame_table_) :
    LET ev == Evict(replacer_, order)
    IN /\ ~ev.ret <=> EvictableFrames(replacer_) = {}
       /\ ~ev.ret => ev.R = replacer_
       /\ ev.ret => Untracked(replacer_, ev.R, ev.frame_id)

\* The victim has K recorded accesses, another frame is tracked but not evictable,
\* and the clock can stamp the victim's next access.
C23_Witness ==
  /\ CanRecord
  /\ \E order \in Orders(DOMAIN replacer_.frame_table_), f \in ReplFrames :
       LET ev == Evict(replacer_, order)
       IN /\ ev.ret
          /\ Len(replacer_.frame_table_[ev.frame_id].history) = ReplacerK
          /\ f \in DOMAIN replacer_.frame_table_
          /\ ~replacer_.frame_table_[f].is_evictable
          /\ f \in DOMAIN ev.R.frame_table_

(***************************************************************************)
(* C24: RecordAccess, SetEvictable and Remove accept a frame id f only     *)
(* when 0 <= f < replacer_size; a call with f == replacer_size,            *)
(* f > replacer_size or f < 0 raises a fault and leaves the replacer state *)
(* (clock, histories, flags, Size) unchanged.                              *)
(***************************************************************************)
C24_InvalidFrameFaults ==
  \A frame_id \in AnyFrameIds \ ReplFrames :
    /\ RecordAccessCall(replacer_, frame_id) = [threw |-> TRUE, R |-> replacer_]
    /\ \A set_evictable \in BOOLEAN :
         SetEvictableCall(replacer_, frame_id, set_evictable) =
           [threw |-> TRUE, R |-> replacer_]
    /\ RemoveCall(replacer_, frame_id) = [threw |-> TRUE, R |-> replacer_]

(***************************************************************************)
(* C25: Remove(f) on a tracked frame that is not evictable raises a fault  *)
(* and leaves the replacer unchanged; Remove(f) on a tracked evictable     *)
(* frame untracks it and decrements Size() by one; Remove(f) on an         *)
(* untracked frame is a no-op.                                             *)
(***************************************************************************)
C25_Remove ==
  \A frame_id \in ReplFrames :
    LET r == RemoveCall(replacer_, frame_id)
    IN IF frame_id \notin DOMAIN replacer_.frame_table_
       THEN r = [threw |-> FALSE, R |-> replacer_]
       ELSE IF ~replacer_.frame_table_[frame_id].is_evictable
       THEN r = [threw |-> TRUE, R |-> replacer_]
       ELSE /\ ~r.threw
            /\ frame_id \notin DOMAIN r.R.frame_table_
            /\ Size(r.R) = Size(replacer_) - 1
            /\ r.R = [replacer_ EXCEPT !.frame_table_ = Erase(@, frame_id),
                                       !.curr_size_ = @ - 1]

\* One frame is tracked and pinned, one is tracked and evictable, one is not
\* tracked: Remove faults on the first, untracks the second, ignores the third.
C25_Witness ==
  \E pinned \in ReplFrames, evictable \in ReplFrames, absent \in ReplFrames :
    /\ pinned \in DOMAIN replacer_.frame_table_
    /\ ~replacer_.frame_table_[pinned].is_evictable
    /\ RemoveCall(replacer_, pinned).threw
    /\ evictable \in EvictableFrames(replacer_)
    /\ Size(RemoveCall(replacer_, evictable).R) = 0
    /\ absent \notin DOMAIN replacer_.frame_table_
    /\ ~RemoveCall(replacer_, absent).threw

\* The directory indices, as the code counts them, and the bucket of an index.
DirIndices == 0..(Len(page_table_.dir_) - 1)

DirBucket(i) == page_table_.buckets[page_table_.dir_[i + 1]]

(***************************************************************************)
(* C26: in every extendible-hash-table state reachable by Insert, Remove   *)
(* and Find from a fresh table (global depth 0, one bucket of local depth  *)
(* 0), the directory length equals 2^global_depth and every directory      *)
(* entry's bucket has local_depth <= global_depth.                         *)
(***************************************************************************)
C26_DirectoryShape ==
  /\ Len(page_table_.dir_) = Pow2(page_table_.global_depth_)
  /\ \A i \in DirIndices : DirBucket(i).depth_ <= page_table_.global_depth_

\* The directory has doubled twice; one bucket still has local depth 1 and is
\* shared by two entries, another has local depth 2.
C26_Witness ==
  /\ page_table_.global_depth_ = 2
  /\ Len(page_table_.dir_) = 4
  /\ \E i \in DirIndices, j \in DirIndices :
       DirBucket(i).depth_ = 1 /\ DirBucket(j).depth_ = 2

\* The keys stored in a bucket.
BucketKeys(bucket) == {bucket.list_[n][1] : n \in DOMAIN bucket.list_}

(***************************************************************************)
(* C27: in every reachable hash-table state, for every directory index i   *)
(* and every key k stored in the bucket dir[i], the low local_depth bits   *)
(* of hash(k) equal the low local_depth bits of i; in particular every     *)
(* stored key lies in the bucket dir[IndexOf(k)] after any number of       *)
(* directory doublings and bucket splits.                                  *)
(***************************************************************************)
C27_KeysMatchIndex ==
  \A i \in DirIndices :
    \A key \in BucketKeys(DirBucket(i)) :
      /\ Hash(key) % Pow2(DirBucket(i).depth_) = i % Pow2(DirBucket(i).depth_)
      /\ page_table_.dir_[IndexOf(page_table_, key) + 1] = page_table_.dir_[i + 1]

\* After two doublings a bucket of local depth 1 holds two keys that differ in
\* bit 1 and is reached from two directory entries; a bucket of depth 2 holds a key.
C27_Witness ==
  /\ page_table_.global_depth_ = 2
  /\ \E i \in DirIndices, j \in DirIndices :
       /\ DirBucket(i).depth_ = 1
       /\ \E k1 \in BucketKeys(DirBucket(i)), k2 \in BucketKeys(DirBucket(i)) :
            (k1 \div 2) % 2 # (k2 \div 2) % 2
       /\ DirBucket(j).depth_ = 2
       /\ BucketKeys(DirBucket(j)) # {}

\* The directory indices that point to the bucket index i points to.
SameBucket(i) == {j \in DirIndices : page_table_.dir_[j + 1] = page_table_.dir_[i + 1]}

(***************************************************************************)
(* C28: in every reachable hash-table state, for every directory index i   *)
(* exactly 2^(global_depth - local_depth(dir[i])) directory entries        *)
(* reference the same bucket as dir[i] (those agreeing with i on the low   *)
(* local_depth bits), and GetNumBuckets() equals the number of distinct    *)
(* buckets referenced by the directory.                                    *)
(***************************************************************************)
C28_SharedEntries ==
  /\ \A i \in DirIndices :
       /\ SameBucket(i) =
            {j \in DirIndices : j % Pow2(DirBucket(i).depth_) = i % Pow2(DirBucket(i).depth_)}
       /\ Cardinality(SameBucket(i)) =
            Pow2(page_table_.global_depth_ - DirBucket(i).depth_)
  /\ page_table_.num_buckets_ =
       Cardinality({page_table_.dir_[i + 1] : i \in DirIndices})

\* Four directory entries and three buckets: one shared by two entries, two with an
\* entry each.
C28_Witness ==
  /\ Len(page_table_.dir_) = 4
  /\ page_table_.num_buckets_ = 3
  /\ \E i \in DirIndices, j \in DirIndices :
       Cardinality(SameBucket(i)) = 2 /\ Cardinality(SameBucket(j)) = 1

\* The bucket the directory entry of key points to.
BucketOf(key) == page_table_.buckets[page_table_.dir_[IndexOf(page_table_, key) + 1]]

\* Insert(key, value) left the shape of the table alone: depths, directory, bucket
\* count and the number of entries of every bucket.
SameShape(H) ==
  /\ H.global_depth_ = page_table_.global_depth_
  /\ H.dir_ = page_table_.dir_
  /\ H.num_buckets_ = page_table_.num_buckets_
  /\ Len(H.buckets) = Len(page_table_.buckets)
  /\ \A b \in 1..Len(page_table_.buckets) :
       /\ H.buckets[b].depth_ = page_table_.buckets[b].depth_
       /\ Len(H.buckets[b].list_) = Len(page_table_.buckets[b].list_)

(***************************************************************************)
(* C29: the hash table behaves as a map: after any sequence of Insert and  *)
(* Remove, Find(k) returns true with the value of the most recent          *)
(* Insert(k, .) not followed by Remove(k) (abs[k]), false otherwise;       *)
(* Insert of a key already present overwrites its value without adding an  *)
(* entry and without splitting or doubling, even when its bucket is full;  *)
(* no bucket ever holds more than bucket_size entries.                     *)
(***************************************************************************)
C29_MapBehaviour ==
  /\ \A key \in HashKeys :
       /\ HashFind(page_table_, key).ret = (abs[key] # 0)
       /\ abs[key] # 0 => HashFind(page_table_, key).value = abs[key]
       /\ abs[key] # 0 =>
            \A value \in HashValues :
              /\ SameShape(TableInsert(page_table_, key, value))
              /\ HashFind(TableInsert(page_table_, key, value), key) =
                   [ret |-> TRUE, value |-> value]
  /\ \A b \in 1..Len(page_table_.buckets) :
       Len(page_table_.buckets[b].list_) <= page_table_.bucket_size_

\* A key whose latest value is 2 sits in a full bucket of a table that has doubled,
\* while another key is absent.
C29_Witness ==
  \E key \in HashKeys, other \in HashKeys :
    /\ abs[key] = 2
    /\ IsFull(BucketOf(key))
    /\ abs[other] = 0
    /\ page_table_.global_depth_ >= 1

\* The entries of a bucket list other than the entry of key, in their order.
WithoutKey(list, key) == SelectSeq(list, LAMBDA item : item[1] # key)

(***************************************************************************)
(* C30: hash-table Remove(k) returns true iff k was present, deletes only  *)
(* that entry, and leaves global depth, the directory, every bucket's      *)
(* local depth and the bucket count unchanged (no merging, no shrinking),  *)
(* even when the bucket becomes empty.                                     *)
(***************************************************************************)
C30_RemoveOnlyEntry ==
  \A key \in HashKeys :
    /\ HashRemove(page_table_, key).ret = (abs[key] # 0)
    /\ HashRemove(page_table_, key).H.global_depth_ = page_table_.global_depth_
    /\ HashRemove(page_table_, key).H.dir_ = page_table_.dir_
    /\ HashRemove(page_table_, key).H.num_buckets_ = page_table_.num_buckets_
    /\ HashRemove(page_table_, key).H.bucket_size_ = page_table_.bucket_size_
    /\ Len(HashRemove(page_table_, key).H.buckets) = Len(page_table_.buckets)
    /\ \A b \in 1..Len(page_table_.buckets) :
         HashRemove(page_table_, key).H.buckets[b] =
           [page_table_.buckets[b] EXCEPT !.list_ = WithoutKey(@, key)]

\* A key is the only entry of a bucket of local depth 1 or more, in a table of
\* several buckets one of which is empty already: removing it empties a second one.
C30_Witness ==
  \E key \in HashKeys :
    /\ abs[key] # 0
    /\ Len(BucketOf(key).list_) = 1
    /\ BucketOf(key).depth_ >= 1
    /\ page_table_.num_buckets_ >= 3
    /\ \E other \in HashKeys : abs[other] = 0 /\ BucketOf(other).list_ = <<>>

\* The timestamp of the K-th most recent access of a frame with K accesses or more.
KthRecentAccess(R, f) ==
  R.frame_table_[f].history[Len(R.frame_table_[f].history) - R.k_ + 1]

\* The tracked frames with K accesses or more.
FullHistoryFrames(R) == {f \in DOMAIN R.frame_table_ : Len(R.frame_table_[f].history) >= R.k_}

(***************************************************************************)
(* C31: when every evictable frame has at least K recorded accesses, Evict *)
(* returns the frame with the largest backward K-distance, the one whose   *)
(* K-th most recent access timestamp is the smallest, whatever the order   *)
(* of the walk; every RecordAccess uses a fresh clock value, so two        *)
(* distinct frames never have the same K-th most recent access and the     *)
(* victim is unique.                                                       *)
(***************************************************************************)
C31_EvictLargestKDistance ==
  /\ \A f \in FullHistoryFrames(replacer_), g \in FullHistoryFrames(replacer_) :
       f # g => KthRecentAccess(replacer_, f) # KthRecentAccess(replacer_, g)
  /\ (EvictableFrames(replacer_) # {} /\ YoungFrames(replacer_) = {}) =>
       \A order \in Orders(DOMAIN replacer_.frame_table_) :
         LET ev == Evict(replacer_, order)
         IN /\ ev.ret
            /\ ev.frame_id \in EvictableFrames(replacer_)
            /\ \A f \in EvictableFrames(replacer_) \ {ev.frame_id} :
                 KthRecentAccess(replacer_, ev.frame_id) < KthRecentAccess(replacer_, f)

\* Two evictable frames with K accesses each and no evictable frame with fewer; the
\* frame whose K-th most recent access is older is also the one used last, and
\* Evict returns it.
C31_Witness ==
  /\ YoungFrames(replacer_) = {}
  /\ \E f \in EvictableFrames(replacer_), g \in EvictableFrames(replacer_) :
       /\ KthRecentAccess(replacer_, f) < KthRecentAccess(replacer_, g)
       /\ replacer_.frame_table_[f].history[ReplacerK] >
            replacer_.frame_table_[g].history[ReplacerK]
       /\ \A order \in Orders(DOMAIN replacer_.frame_table_) :
            Evict(replacer_, order).frame_id = f

(***************************************************************************)
(* C32: on a replacer with num_frames = 7 and K = 2, after RecordAccess on *)
(* frames 1,2,3,4,1,2,5,1,2,3,4 in this order followed by                  *)
(* SetEvictable(f, true) for f = 1..6, the first Evict returns frame 6.    *)
(***************************************************************************)
C32_ScenarioFirstVictim == last.victims # <<>> => last.victims[1] = 6

\* The page id the n-th NewPage of the pool scenario returned.
ScenarioPage(n) == last.pids[n]

\* Page page_id is resident with one pin.
PinnedOnce(page_id) == Resident(page_id) /\ pages_[FrameOf(page_id)].pin_count_ = 1

(***************************************************************************)
(* C33: scenario, pool size 3 and K = 2: after NewPage three times (p1,    *)
(* p2, p3), Unpin(p1, false) and Unpin(p2, true), a fourth NewPage         *)
(* succeeds by evicting p1 (the earliest first access among the unpinned   *)
(* pages) with no disk write, leaving p2 resident and dirty; a fifth       *)
(* NewPage evicts p2 and writes p2 to disk before its frame is reused; a   *)
(* sixth NewPage returns null while p3 and the two new pages stay pinned.  *)
(***************************************************************************)
C33_PoolScenario ==
  /\ last.step >= 6 =>
       /\ ScenarioPage(4) # INVALID_PAGE_ID
       /\ last.frames[4] = last.frames[1]
       /\ ~Resident(ScenarioPage(1))
       /\ disk[ScenarioPage(1)] = 0
  /\ last.step = 6 =>
       /\ Resident(ScenarioPage(2))
       /\ pages_[FrameOf(ScenarioPage(2))].is_dirty_
       /\ pages_[FrameOf(ScenarioPage(2))].data_ = last.data[ScenarioPage(2)]
       /\ disk[ScenarioPage(2)] = 0
  /\ last.step >= 7 =>
       /\ ScenarioPage(5) # INVALID_PAGE_ID
       /\ last.frames[5] = last.frames[2]
       /\ ~Resident(ScenarioPage(2))
       /\ disk[ScenarioPage(2)] = last.data[ScenarioPage(2)]
       /\ \A n \in 3..5 : PinnedOnce(ScenarioPage(n))
  /\ last.step = 8 =>
       /\ ScenarioPage(6) = INVALID_PAGE_ID
       /\ last.frames[6] = -1
       /\ \A n \in 3..5 : PinnedOnce(ScenarioPage(n))
       /\ {pages_[f].page_id_ : f \in DOMAIN pages_} = {ScenarioPage(n) : n \in 3..5}

\* The sixth NewPage has returned null; p1 was modified and unpinned clean, p2 was
\* modified and unpinned dirty, and the disk holds p2's contents and not p1's.
C33_Witness ==
  /\ last.step = 8
  /\ last.data[ScenarioPage(1)] = 1
  /\ last.data[ScenarioPage(2)] = 1
  /\ disk[ScenarioPage(2)] = 1
  /\ disk[ScenarioPage(1)] = 0

\* An Insert is in its loop.
InsertRunning == last.running

\* The Insert has returned and its key is stored, with its value, in the bucket of
\* directory entry IndexOf(key).
InsertStored ==
  /\ ~last.running
  /\ BucketFind(BucketOf(last.key).list_, last.key) = [ret |-> TRUE, value |-> last.value]

(***************************************************************************)
(* C34: hash-table Insert terminates: for bucket_size >= 1 and keys whose  *)
(* hashes are pairwise distinct within the modelled bit width, the         *)
(* split-and-retry loop of Insert(k, v) performs finitely many directory   *)
(* doublings and bucket splits (possibly several in one call, when all     *)
(* entries of the full bucket share the discriminating bit) and ends with  *)
(* k stored in dir[IndexOf(k)].                                            *)
(***************************************************************************)
C34_InsertTerminates == InsertRunning ~> InsertStored

\* An Insert that is still in its loop has split its bucket twice already, doubling
\* the directory to global depth 2, and the bucket of its key is full again.
C34_Witness ==
  /\ last.running
  /\ page_table_.num_buckets_ >= last.buckets_before + 2
  /\ page_table_.global_depth_ >= 2
  /\ IsFull(BucketOf(last.key))

\* The slots of internal page parent_id that hold page_id as their child.
ChildSlots(parent_id, page_id) ==
  {i \in 1..Len(pages[parent_id].arr) : pages[parent_id].arr[i][2] = page_id}

(***************************************************************************)
(* C35: after any sequence of completed Insert/Remove operations, every    *)
(* non-root node's parent_page_id names an internal node that contains     *)
(* that node's page id among its children exactly once, and the root's     *)
(* parent_page_id is INVALID; this holds for children moved by internal    *)
(* splits, borrows and merges and for a child promoted to root.            *)
(***************************************************************************)
C35_ParentPointers ==
  root_page_id_ # INVALID_PAGE_ID =>
    /\ pages[root_page_id_].parent = INVALID_PAGE_ID
    /\ \A page_id \in TreeNodes \ {root_page_id_} :
         /\ pages[page_id].parent \in TreeNodes
         /\ ~pages[pages[page_id].parent].leaf
         /\ Cardinality(ChildSlots(pages[page_id].parent, page_id)) = 1

\* A Remove merged an internal node into its left sibling, moving its child over,
\* and the root, left with one child, gave way to that sibling: the new root has
\* three children and the old root's page still names it as its child.
C35_Witness ==
  /\ workload.limited /\ workload.removes_left = 0
  /\ root_page_id_ # INVALID_PAGE_ID
  /\ ~pages[root_page_id_].leaf
  /\ Len(pages[root_page_id_].arr) = 3
  /\ \E old \in DOMAIN pages \ TreeNodes :
       ~pages[old].leaf /\ Children(pages[old].arr) = <<root_page_id_>>

\* IsEmpty(): root_page_id_ == INVALID_PAGE_ID.
IsEmpty == root_page_id_ = INVALID_PAGE_ID

\* The root is a leaf with an entry or an internal node with two children or more.
RootInShape ==
  ~IsEmpty =>
    IF pages[root_page_id_].leaf THEN GetSize(pages[root_page_id_]) >= 1
    ELSE GetSize(pages[root_page_id_]) >= 2

(***************************************************************************)
(* C36: after any completed Remove, the root is never an internal node     *)
(* with fewer than 2 children and never an empty leaf (an internal root    *)
(* left with one child is replaced by that child, a root leaf left with    *)
(* zero entries makes the tree empty); consequently IsEmpty() is true      *)
(* exactly when the tree stores no key.                                    *)
(***************************************************************************)
C36_RootCollapse == RootInShape /\ (IsEmpty <=> Stored = {})

\* Remove(key) up to ReclaimDeletedPages: its S.del is the transaction's deleted
\* page set, the pages the merges of this call took out of the tree.
RemovalOf(key) ==
  LET f == FindLeaf(TreeState, root_page_id_, key, <<INVALID_PAGE_ID>>)
  IN RemoveAtLeaf(f.S, f.chain[Len(f.chain)], key)

(***************************************************************************)
(* C37: every page that a merge during Remove takes out of the tree (the   *)
(* node merged into its left sibling, or the right sibling merged into the *)
(* node) has been reclaimed when Remove returns: DeletePage for it         *)
(* returned true and it is no longer in the pool.                          *)
(***************************************************************************)
C37_MergedPagesReclaimed ==
  ~IsEmpty =>
    \A key \in Keys :
      \A page_id \in RemovalOf(key).S.del :
        page_id \notin DOMAIN TreeRemove(TreeState, key).pages

\* The pins a page has from the calls in progress: once for each time it is in the
\* page set of a thread's Transaction.
PinsHeld(page_id) ==
  Cardinality(UNION {{<<t, i>> : i \in {j \in DOMAIN txn[t].page_set :
                                            txn[t].page_set[j] = page_id}} : t \in Threads})

\* Thread t is in no call.
Returned(t) == txn[t].pc = "idle"

Started(t) == txn[t].pc \notin {"idle", "iter"}

\* The pages whose latch the next step of thread t asks for, and the other threads
\* that hold one of them in a way that makes t wait.
Wanted(t) ==
  IF txn[t].pc \in {"descend", "descend_nt", "iter_latch"} THEN {txn[t].page_id}
  ELSE IF txn[t].pc = "leaf" /\ txn[t].mode = REMOVE_MODE THEN Siblings(t)
  ELSE {}

Blockers(t) ==
  {l.thread : l \in {h \in latches : /\ h.page \in Wanted(t)
                                      /\ h.thread # t
                                      /\ (IsWrite(t) \/ h.mode = "W")}}

\* No set of threads in which everyone waits for a latch another one of the set holds.
NoWaitCycle ==
  \A C \in SUBSET Threads :
    C # {} => \E t \in C : CanStep(t) \/ ~Started(t) \/ Blockers(t) \cap C = {}

\* From some point on no new call starts and no new iterator is opened: what is
\* left is the calls in progress and the iterators being advanced.
CallersStop == <>[][\A t \in Threads : ~NewCall(t)]_vars

Reading(t) ==
  \/ txn[t].pc \in {"descend", "leaf"} /\ txn[t].mode = READ_MODE
  \/ txn[t].pc \in {"descend_nt", "leaf_nt"}

\* The pages thread t holds: its page set without the mark of tree_guard_.
HeldPages(t) ==
  {txn[t].page_set[i] : i \in {j \in DOMAIN txn[t].page_set :
                                 txn[t].page_set[j] # INVALID_PAGE_ID}}

\* GetValue of thread t is still to latch the root.
BeforeRoot(t) == txn[t].pc \in {"descend", "descend_nt"} /\ HeldPages(t) = {}

(***************************************************************************)
(* C40: read crabbing in GetValue.  A reader holds the read latch and a    *)
(* pin of exactly the page it has reached, and while it waits for the      *)
(* child's latch it still holds the parent's: the second latch is taken    *)
(* before the first is given back, so it never holds more than two.  The   *)
(* child it goes to is the one the latched parent names for the key.       *)
(* tree_guard_ is read-locked while the reader goes for the root, whose id *)
(* is then root_page_id_, and it is given back once: with a transaction    *)
(* when the root is latched, without one when GetValue returns.            *)
(***************************************************************************)
C40_ReadCrabbing ==
  \A t \in Threads :
    Reading(t) =>
      /\ {l \in latches : l.thread = t}
           = {[page |-> p, thread |-> t, mode |-> "R"] : p \in HeldPages(t)}
      /\ Cardinality(HeldPages(t)) <= 1
      /\ \A p \in HeldPages(t) : p \in DOMAIN pages /\ pages[p].pin > 0
      /\ txn[t].pc \in {"descend", "descend_nt"} =>
           \A p \in HeldPages(t) :
             /\ ~pages[p].leaf
             /\ txn[t].page_id = InternalLookup(pages[p].arr, txn[t].key)
      /\ txn[t].pc \in {"leaf", "leaf_nt"} => HeldPages(t) = {txn[t].page_id}
      /\ BeforeRoot(t) => t \in tree_guard_.readers /\ txn[t].page_id = root_page_id_
      /\ txn[t].pc \in {"descend", "leaf"} =>
           (t \in tree_guard_.readers <=> txn[t].page_set = <<INVALID_PAGE_ID>>)
      /\ txn[t].pc \in {"descend_nt", "leaf_nt"} => t \in tree_guard_.readers

\* A reader with a transaction holds the latch of the root, an internal page, has
\* given tree_guard_ back and is on its way to the child; a writer has taken
\* tree_guard_ since and waits for the latch of the root.
C40_Witness ==
  \E t \in Threads, u \in Threads :
    /\ txn[t].pc = "descend" /\ txn[t].mode = READ_MODE
    /\ HeldPages(t) = {root_page_id_}
    /\ t \notin tree_guard_.readers
    /\ tree_guard_.writer = u
    /\ txn[u].pc = "descend" /\ txn[u].page_id = root_page_id_ /\ ~CanStep(u)

====
